---- MODULE Spec2Model ----
(***************************************************************************)
(* A model of the rule-compilation and execution engine of aatuh/validate: *)
(* the tag parser, the rule compiler, the Engine's compilation cache and   *)
(* the struct walker.                                                      *)
(*                                                                         *)
(* Go strings that the code parses (tags, tokens) are sequences of         *)
(* lexemes: the delimiters ";", "(", ")", ",", " " are lexemes of their    *)
(* own, rule keys up to and including "=" are one lexeme, and every other  *)
(* lexeme is one character.  Paths are sequences of lexemes as well, with  *)
(* "[" and "]" lexemes of their own.  Go string values handed to a         *)
(* validator are sequences of characters.                                  *)
(***************************************************************************)
EXTENDS Integers, Sequences, FiniteSets, TLC

VARIABLES
    engine,     \* the Engine: customRules, translator, pathSep, compiled, next
    calls,      \* history of the FromRules / CompileRules calls made on engine
    procs,      \* the concurrent callers of FromRules / CompileRules
    evalIn,     \* the validator (rule list) and value of the last invocation
    evalOut,    \* the outcome of the last invocation
    walkIn,     \* the struct and options of the last ValidateStruct call
    walkOut,    \* the outcome of the last ValidateStruct call
    heap,       \* the Engines derived from one another and their rule tables
    pureIn,     \* the input of the last ParseTag or SerializeRules call
    pureOut     \* what that call returned

vars == <<engine, calls, procs, evalIn, evalOut, walkIn, walkOut, heap, pureIn, pureOut>>

---------------------------------------------------------------------------
(* Bounds of the model.                                                    *)

MaxCalls == 3
NumCallers == 2

---------------------------------------------------------------------------
(* Sequence helpers.                                                       *)

Range(s) == {s[i] : i \in 1..Len(s)}

RECURSIVE Flatten(_)
Flatten(s) == IF s = <<>> THEN "" ELSE Head(s) \o Flatten(Tail(s))

RECURSIVE ConcatAll(_)
ConcatAll(ss) == IF ss = <<>> THEN <<>> ELSE Head(ss) \o ConcatAll(Tail(ss))

HasPrefix(s, x) == Len(s) >= 1 /\ s[1] = x
HasSuffix(s, x) == Len(s) >= 1 /\ s[Len(s)] = x
TrimPrefix(s, x) == IF HasPrefix(s, x) THEN Tail(s) ELSE s
TrimSuffix(s, x) == IF HasSuffix(s, x) THEN SubSeq(s, 1, Len(s) - 1) ELSE s
Contains(s, x) == \E i \in 1..Len(s) : s[i] = x

(* strings.Split(s, sep): the pieces between the separators, empty pieces  *)
(* kept; one piece when there is no separator.                             *)
RECURSIVE SplitFrom(_, _, _, _)
SplitFrom(s, sep, i, cur) ==
    IF i > Len(s) THEN <<cur>>
    ELSE IF s[i] = sep THEN <<cur>> \o SplitFrom(s, sep, i + 1, <<>>)
    ELSE SplitFrom(s, sep, i + 1, Append(cur, s[i]))

Split(s, sep) == SplitFrom(s, sep, 1, <<>>)

(* strings.Fields(s): the non-empty pieces between runs of white space.    *)
Fields(s) == SelectSeq(Split(s, " "), LAMBDA p : p # <<>>)

(* strings.Join(tokens, sep).                                              *)
RECURSIVE Join(_, _)
Join(tokens, sep) ==
    IF tokens = <<>> THEN <<>>
    ELSE IF Len(tokens) = 1 THEN tokens[1]
    ELSE tokens[1] \o <<sep>> \o Join(Tail(tokens), sep)

---------------------------------------------------------------------------
(* Rule AST.                                                               *)

KString == "string"
KLength == "length"
KMinLength == "minLength"
KMaxLength == "maxLength"
KRegex == "regex"
KOneOf == "oneOf"
KMinRunes == "minRunes"
KMaxRunes == "maxRunes"
KInt == "int"
KInt64 == "int64"
KMinInt == "minInt"
KMaxInt == "maxInt"
KSlice == "slice"
KSliceLength == "sliceLength"
KMinSliceLength == "minSliceLength"
KMaxSliceLength == "maxSliceLength"
KForEach == "forEach"
KBool == "bool"

(* Argument values of a rule (Go: any).                                    *)
AInt(n) == [t |-> "int", n |-> n]
AInt64(n) == [t |-> "int64", n |-> n]
AStr(s) == [t |-> "string", s |-> s]
AStrs(ss) == [t |-> "strings", ss |-> ss]
ARules(rs) == [t |-> "rules", rs |-> rs]
AFunc(f) == [t |-> "func", f |-> f]
AMap(m) == [t |-> "map", m |-> m]

(* A nil or empty Args map, and a nil Elem.                                *)
NoArgs == <<>>
NoElem == <<>>

(* Rule{Kind, Args, Elem}: Elem is <<>> (nil) or <<rule>>.                 *)
Rule(kind, args, elem) == [Kind |-> kind, Args |-> args, Elem |-> elem]
NewRule(kind, args) == Rule(kind, args, NoElem)
NewRuleWithElem(kind, args, elem) == Rule(kind, args, <<elem>>)

HasArg(r, key) == key \in DOMAIN r.Args

---------------------------------------------------------------------------
(* Tag parser (types.ParseTag).                                            *)

DigitVal ==
    [d \in {"0", "1", "2", "3", "4", "5", "6", "7", "8", "9"} |->
        CASE d = "0" -> 0 [] d = "1" -> 1 [] d = "2" -> 2 [] d = "3" -> 3
          [] d = "4" -> 4 [] d = "5" -> 5 [] d = "6" -> 6 [] d = "7" -> 7
          [] d = "8" -> 8 [] d = "9" -> 9]

IsDigits(s) == s # <<>> /\ \A i \in 1..Len(s) : s[i] \in DOMAIN DigitVal

RECURSIVE DigitsVal(_)
DigitsVal(s) ==
    IF s = <<>> THEN 0
    ELSE 10 * DigitsVal(SubSeq(s, 1, Len(s) - 1)) + DigitVal[s[Len(s)]]

(* strconv.Atoi / strconv.ParseInt(s, 10, 64): an optional sign, then      *)
(* decimal digits only.  The numerals of the model have at most a few      *)
(* digits, so the 64-bit range error of the two functions never arises.    *)
AtoiDigits(s) == IF HasPrefix(s, "-") \/ HasPrefix(s, "+") THEN Tail(s) ELSE s
AtoiVal(s) == IF HasPrefix(s, "-") THEN 0 - DigitsVal(AtoiDigits(s)) ELSE DigitsVal(AtoiDigits(s))
AtoiOk(s) == IsDigits(AtoiDigits(s))

(* splitTagSafely: one pass over the tag with the parenthesis depth.       *)
RECURSIVE splitTagFrom(_, _, _, _, _)
splitTagFrom(tag, i, parts, current, parenDepth) ==
    IF i > Len(tag)
    THEN IF Len(current) > 0 THEN Append(parts, current) ELSE parts
    ELSE IF tag[i] = ";"
    THEN IF parenDepth = 0
         THEN splitTagFrom(tag, i + 1, Append(parts, current), <<>>, parenDepth)
         ELSE splitTagFrom(tag, i + 1, parts, Append(current, tag[i]), parenDepth)
    ELSE IF tag[i] = "("
    THEN splitTagFrom(tag, i + 1, parts, Append(current, tag[i]), parenDepth + 1)
    ELSE IF tag[i] = ")"
    THEN splitTagFrom(tag, i + 1, parts, Append(current, tag[i]), parenDepth - 1)
    ELSE splitTagFrom(tag, i + 1, parts, Append(current, tag[i]), parenDepth)

(* A split at every semicolon, inside parentheses or not.                  *)
splitTagPlain(tag) == Split(tag, ";")

splitTagSafely(tag) == splitTagFrom(tag, 1, <<>>, <<>>, 0)

(* The result of parsing one segment: an error, no rule, or one rule.      *)
PErr(msg) == [err |-> msg, rule |-> <<>>]
(* An empty segment that is turned into a rule with no kind.              *)
PEmptyRule == [err |-> "", rule |-> <<NewRule("", NoArgs)>>]

PNone == [err |-> "", rule |-> <<>>]
POne(r) == [err |-> "", rule |-> <<r>>]

(* The result of ParseTag: (rules, nil) or (nil, err).                     *)
TagErr(msg) == [err |-> msg, rules |-> <<>>]
TagOk(rs) == [err |-> "", rules |-> rs]

parseStringRule(part) ==
    IF part = <<>> THEN PNone
    ELSE IF HasPrefix(part, "length=")
    THEN IF AtoiOk(Tail(part))
         THEN POne(NewRule(KLength, [n |-> AInt(AtoiVal(Tail(part)))]))
         ELSE PErr("strconv.Atoi: invalid syntax")
    ELSE IF HasPrefix(part, "min=")
    THEN IF AtoiOk(Tail(part))
         THEN POne(NewRule(KMinLength, [n |-> AInt(AtoiVal(Tail(part)))]))
         ELSE PErr("strconv.Atoi: invalid syntax")
    ELSE IF HasPrefix(part, "max=")
    THEN IF AtoiOk(Tail(part))
         THEN POne(NewRule(KMaxLength, [n |-> AInt(AtoiVal(Tail(part)))]))
         ELSE PErr("strconv.Atoi: invalid syntax")
    ELSE IF HasPrefix(part, "regex=")
    THEN POne(NewRule(KRegex, [pattern |-> AStr(Tail(part))]))
    ELSE IF HasPrefix(part, "oneof=")
    THEN IF Contains(Tail(part), ",")
         THEN POne(NewRule(KOneOf, [values |-> AStrs(Split(Tail(part), ","))]))
         ELSE POne(NewRule(KOneOf, [values |-> AStrs(Fields(Tail(part)))]))
    ELSE POne(NewRule(Flatten(part), NoArgs))

(* An int segment parser that takes an unknown segment for a plugin rule.  *)
parseIntRuleLenient(part) ==
    IF part = <<>> THEN PNone ELSE POne(NewRule(Flatten(part), NoArgs))

parseIntRule(part) ==
    IF part = <<>> THEN PNone
    ELSE IF HasPrefix(part, "min=")
    THEN IF AtoiOk(Tail(part))
         THEN POne(NewRule(KMinInt, [n |-> AInt64(AtoiVal(Tail(part)))]))
         ELSE PErr("strconv.ParseInt: invalid syntax")
    ELSE IF HasPrefix(part, "max=")
    THEN IF AtoiOk(Tail(part))
         THEN POne(NewRule(KMaxInt, [n |-> AInt64(AtoiVal(Tail(part)))]))
         ELSE PErr("strconv.ParseInt: invalid syntax")
    ELSE PErr("unknown int rule")

RECURSIVE ParseTag(_)
RECURSIVE parseSliceRule(_)
RECURSIVE parseParts(_, _, _, _)

parseSliceRule(part) ==
    IF part = <<>> THEN PNone
    ELSE IF HasPrefix(part, "length=")
    THEN IF AtoiOk(Tail(part))
         THEN POne(NewRule(KSliceLength, [n |-> AInt(AtoiVal(Tail(part)))]))
         ELSE PErr("strconv.Atoi: invalid syntax")
    ELSE IF HasPrefix(part, "min=")
    THEN IF AtoiOk(Tail(part))
         THEN POne(NewRule(KMinSliceLength, [n |-> AInt(AtoiVal(Tail(part)))]))
         ELSE PErr("strconv.Atoi: invalid syntax")
    ELSE IF HasPrefix(part, "max=")
    THEN IF AtoiOk(Tail(part))
         THEN POne(NewRule(KMaxSliceLength, [n |-> AInt(AtoiVal(Tail(part)))]))
         ELSE PErr("strconv.Atoi: invalid syntax")
    ELSE IF HasPrefix(part, "foreach=")
    THEN LET inner == Tail(part)
             innerTag == TrimSuffix(TrimPrefix(inner, "("), ")")
             parsed == ParseTag(innerTag)
         IN  IF ~(HasPrefix(inner, "(") /\ HasSuffix(inner, ")"))
             THEN PErr("foreach must be wrapped in parentheses")
             ELSE IF parsed.err # ""
             THEN PErr("invalid foreach rules")
             ELSE IF Len(parsed.rules) = 0
             THEN PErr("foreach must have at least one rule")
             ELSE POne(NewRuleWithElem(KForEach, [rules |-> ARules(parsed.rules)], parsed.rules[1]))
    ELSE PErr("unknown slice rule")

(* The loop over parts[1:] of ParseTag, for one base type: the first       *)
(* failing segment ends the parse with (nil, err).                         *)
parseParts(base, parts, i, rules) ==
    IF i > Len(parts) THEN TagOk(rules)
    ELSE LET res == CASE base = "string" -> parseStringRule(parts[i])
                      [] base = "int" -> parseIntRule(parts[i])
                      [] OTHER -> parseSliceRule(parts[i])
         IN  IF res.err # ""
             THEN TagErr("invalid " \o base \o " rule: " \o res.err)
             ELSE parseParts(base, parts, i + 1, rules \o res.rule)

ParseTag(tag) ==
    IF tag = <<>> THEN TagOk(<<>>)
    ELSE LET parts == splitTagSafely(tag)
         IN  IF Len(parts) = 0 THEN TagErr("empty tag")
             ELSE IF parts[1] = <<"string">>
             THEN parseParts("string", parts, 2, <<NewRule(KString, NoArgs)>>)
             ELSE IF parts[1] = <<"int">>
             THEN parseParts("int", parts, 2, <<NewRule(KInt, NoArgs)>>)
             ELSE IF parts[1] = <<"int64">>
             THEN parseParts("int", parts, 2, <<NewRule(KInt64, NoArgs)>>)
             ELSE IF parts[1] = <<"slice">>
             THEN parseParts("slice", parts, 2, <<NewRule(KSlice, NoArgs)>>)
             ELSE IF parts[1] = <<"bool">>
             THEN TagOk(<<NewRule(KBool, NoArgs)>>)
             ELSE TagErr("unknown type")

---------------------------------------------------------------------------
(* Values handed to a validator (Go: any).                                 *)

VNil == [t |-> "nil"]
VStr(s) == [t |-> "string", s |-> s]
VInt(ty, n) == [t |-> ty, n |-> n]
VBool(b) == [t |-> "bool", b |-> b]
VSlice(elems) == [t |-> "slice", elems |-> elems]
(* A value of a named type with a String() method that returns s.          *)
VStringer(s) == [t |-> "stringer", s |-> s]

IntTypes == {"int", "int8", "int16", "int32", "int64", "uint", "uint8", "uint16", "uint32", "uint64"}

(* len(s) in bytes and utf8.RuneCountInString(s): every character of the   *)
(* model is one rune; "U" stands for a rune that takes two bytes.          *)
CharBytes(c) == IF c = "U" THEN 2 ELSE 1

RECURSIVE ByteLen(_)
ByteLen(s) == IF s = <<>> THEN 0 ELSE CharBytes(Head(s)) + ByteLen(Tail(s))

RuneCount(s) == Len(s)

---------------------------------------------------------------------------
(* Error model (errors.FieldError, errors.Errors) and messages.            *)

CodeUnknown == "unknown"
CodeStringType == "string.type"
CodeStringLength == "string.length"
CodeStringMin == "string.min"
CodeStringMax == "string.max"
CodeStringOneOf == "string.oneof"
CodeStringRegexInvalidPattern == "string.regex.invalidPattern"
CodeStringRegexInputTooLong == "string.regex.inputTooLong"
CodeStringRegexNoMatch == "string.regex.noMatch"
CodeStringMinRunes == "string.minRunes"
CodeStringMaxRunes == "string.maxRunes"
CodeIntType == "int.type"
CodeInt64Type == "int64.type"
CodeIntMin == "int.min"
CodeIntMax == "int.max"
CodeSliceType == "slice.type"
CodeSliceLength == "slice.length"
CodeSliceMin == "slice.min"
CodeSliceMax == "slice.max"
CodeBoolType == "bool.type"

(* FieldError{Path, Code, Msg}: the compiler never sets Param.             *)
FieldError(path, code, msg) == [Path |-> path, Code |-> code, Param |-> <<>>, Msg |-> msg]

(* An error value: nil, an errors.Errors, or any other error.              *)
Nil == [k |-> "nil"]
Errors(es) == [k |-> "errors", es |-> es]
PlainError(msg) == [k |-> "error", msg |-> msg]

IsErrors(e) == e.k = "errors"

(* Translators of the model: none (nil), one that echoes the key, one that *)
(* has no entry and returns "".                                            *)
Translators == {"nil", "keyEcho", "empty"}

TranslatorT(tr, code) == IF tr = "keyEcho" THEN code ELSE ""

translateMessage(tr, code, defaultMsg) ==
    IF tr # "nil" /\ TranslatorT(tr, code) # "" THEN TranslatorT(tr, code) ELSE defaultMsg

(* verrs.Errors{verrs.FieldError{Path: "", Code: code, Msg: msg}}          *)
Fail(tr, code, defaultMsg) ==
    Errors(<<FieldError(<<>>, code, translateMessage(tr, code, defaultMsg))>>)

---------------------------------------------------------------------------
(* Rule compiler (types.Compiler).  A compiled rule is a closure over the  *)
(* arguments resolved at compile time; the operators below give the        *)
(* closure's result on a value.                                            *)

(* Width of the model's int64 and uint64 in bits.                          *)
IntBits == 6
MaxInt64 == 2 ^ (IntBits - 1) - 1

maxInputLength == 10000

getIntArg(rule, key, defaultVal) ==
    IF HasArg(rule, key) /\ rule.Args[key].t \in {"int", "int64"}
    THEN rule.Args[key].n ELSE defaultVal

getInt64Arg(rule, key, defaultVal) ==
    IF HasArg(rule, key) /\ rule.Args[key].t = "int64"
    THEN rule.Args[key].n ELSE defaultVal

getStringArg(rule, key, defaultVal) ==
    IF HasArg(rule, key) /\ rule.Args[key].t = "string"
    THEN rule.Args[key].s ELSE defaultVal

getStringSliceArg(rule, key, defaultVal) ==
    IF HasArg(rule, key) /\ rule.Args[key].t = "strings"
    THEN rule.Args[key].ss ELSE defaultVal

(* toInt64: every integer type converts; an unsigned value above           *)
(* math.MaxInt64 does not; a string converts when it is a base-10 integer. *)
(* A conversion that accepts every integer, whatever its size.             *)
toInt64OkAnySize(v) ==
    \/ v.t \in IntTypes
    \/ v.t = "string" /\ AtoiOk(v.s)

toInt64Ok(v) ==
    \/ v.t \in {"int", "int8", "int16", "int32", "int64", "uint8", "uint16", "uint32"}
    \/ v.t \in {"uint", "uint64"} /\ v.n <= MaxInt64
    \/ v.t = "string" /\ AtoiOk(v.s)

toInt64(v) == IF v.t = "string" THEN AtoiVal(v.s) ELSE v.n

(* compileRegexSafe: the pattern is anchored, then compiled.  The model's  *)
(* patterns are made of literal characters, "." and parentheses; such a    *)
(* pattern compiles if and only if its parentheses are balanced.           *)
anchor(pattern) ==
    LET p1 == IF Len(pattern) > 0 /\ pattern[1] # "^" THEN <<"^">> \o pattern ELSE pattern
    IN  IF Len(p1) > 0 /\ p1[Len(p1)] # "$" THEN p1 \o <<"$">> ELSE p1

RECURSIVE parensBalanced(_, _)
parensBalanced(p, depth) ==
    IF p = <<>> THEN depth = 0
    ELSE IF Head(p) = "(" THEN parensBalanced(Tail(p), depth + 1)
    ELSE IF Head(p) = ")" THEN depth > 0 /\ parensBalanced(Tail(p), depth - 1)
    ELSE parensBalanced(Tail(p), depth)

(* A compile that accepts every pattern.                                  *)
compileRegexSafeAlways(pattern) == TRUE

compileRegexSafe(pattern) == parensBalanced(anchor(pattern), 0)

(* regex.MatchString(s) for the anchored pattern: the empty pattern        *)
(* matches every string; otherwise the string matches character by         *)
(* character, "." standing for any character.                              *)
MatchString(pattern, s) ==
    LET body == SelectSeq(anchor(pattern), LAMBDA c : c \notin {"^", "$", "(", ")"})
    IN  \/ pattern = <<>>
        \/ /\ Len(body) = Len(s)
           /\ \A i \in 1..Len(s) : body[i] = "." \/ body[i] = s[i]

validateString(tr, v) ==
    IF v.t # "string" THEN Fail(tr, CodeStringType, "expected string") ELSE Nil

validateLength(tr, v, n) ==
    IF v.t # "string" THEN Fail(tr, CodeStringType, "expected string")
    ELSE IF ByteLen(v.s) # n THEN Fail(tr, CodeStringLength, "length must be " \o ToString(n))
    ELSE Nil

validateMinLength(tr, v, n) ==
    IF v.t # "string" THEN Fail(tr, CodeStringType, "expected string")
    ELSE IF ByteLen(v.s) < n THEN Fail(tr, CodeStringMin, "minimum length is " \o ToString(n))
    ELSE Nil

validateMaxLength(tr, v, n) ==
    IF v.t # "string" THEN Fail(tr, CodeStringType, "expected string")
    ELSE IF ByteLen(v.s) > n THEN Fail(tr, CodeStringMax, "maximum length is " \o ToString(n))
    ELSE Nil

validateMinRunes(tr, v, n) ==
    IF v.t # "string" THEN Fail(tr, CodeStringType, "expected string")
    ELSE IF RuneCount(v.s) < n THEN Fail(tr, CodeStringMinRunes, "minimum rune count is " \o ToString(n))
    ELSE Nil

validateMaxRunes(tr, v, n) ==
    IF v.t # "string" THEN Fail(tr, CodeStringType, "expected string")
    ELSE IF RuneCount(v.s) > n THEN Fail(tr, CodeStringMaxRunes, "maximum rune count is " \o ToString(n))
    ELSE Nil

validateRegexWithPattern(tr, v, pattern) ==
    IF v.t # "string" THEN Fail(tr, CodeStringType, "expected string")
    ELSE IF ByteLen(v.s) > maxInputLength
    THEN Fail(tr, CodeStringRegexInputTooLong, "input too long (max " \o ToString(maxInputLength) \o " characters)")
    ELSE IF ~MatchString(pattern, v.s)
    THEN Fail(tr, CodeStringRegexNoMatch, "does not match required pattern")
    ELSE Nil

validateOneOf(tr, v, values) ==
    IF v.t # "string" THEN Fail(tr, CodeStringType, "expected string")
    ELSE IF \E i \in 1..Len(values) : v.s = values[i] THEN Nil
    ELSE Fail(tr, CodeStringOneOf, "must be one of: " \o Flatten(Join([i \in 1..Len(values) |-> <<Flatten(values[i])>>], ", ")))

validateInt(tr, v) ==
    IF v.t \in IntTypes THEN Nil ELSE Fail(tr, CodeIntType, "expected integer")

validateInt64(tr, v) ==
    IF v.t = "int64" THEN Nil ELSE Fail(tr, CodeInt64Type, "expected int64")

validateMinInt(tr, v, n) ==
    IF ~toInt64Ok(v) THEN Fail(tr, CodeIntType, "expected integer")
    ELSE IF toInt64(v) < n THEN Fail(tr, CodeIntMin, "minimum value is " \o ToString(n))
    ELSE Nil

validateMaxInt(tr, v, n) ==
    IF ~toInt64Ok(v) THEN Fail(tr, CodeIntType, "expected integer")
    ELSE IF toInt64(v) > n THEN Fail(tr, CodeIntMax, "maximum value is " \o ToString(n))
    ELSE Nil

validateSlice(tr, v) ==
    IF v.t # "slice" THEN Fail(tr, CodeSliceType, "expected slice") ELSE Nil

validateSliceLength(tr, v, n) ==
    IF v.t # "slice" THEN Fail(tr, CodeSliceType, "expected slice")
    ELSE IF Len(v.elems) # n THEN Fail(tr, CodeSliceLength, "length must be " \o ToString(n))
    ELSE Nil

validateMinSliceLength(tr, v, n) ==
    IF v.t # "slice" THEN Fail(tr, CodeSliceType, "expected slice")
    ELSE IF Len(v.elems) < n THEN Fail(tr, CodeSliceMin, "minimum length is " \o ToString(n))
    ELSE Nil

validateMaxSliceLength(tr, v, n) ==
    IF v.t # "slice" THEN Fail(tr, CodeSliceType, "expected slice")
    ELSE IF Len(v.elems) > n THEN Fail(tr, CodeSliceMax, "maximum length is " \o ToString(n))
    ELSE Nil

validateBool(tr, v) ==
    IF v.t # "bool" THEN Fail(tr, CodeBoolType, "expected boolean") ELSE Nil

(* The plugin compilers in globalRegistry, which NewCompiler copies into    *)
(* every Compiler: of the plugins that register themselves the model has   *)
(* ulid.                                                                   *)
KULID == "ulid"
CodeULIDInvalid == "string.ulid.invalid"

globalRegistry == {KULID}

(* The closure of compileULID: 26 characters of Crockford base32.  Of      *)
(* these the model's characters have the digits only.                      *)
validateULID(tr, v) ==
    IF v.t # "string" THEN Fail(tr, CodeStringType, "expected string")
    ELSE IF ByteLen(v.s) # 26 \/ \E i \in 1..Len(v.s) : v.s[i] \notin DOMAIN DigitVal
    THEN Fail(tr, CodeULIDInvalid, "invalid ULID format")
    ELSE Nil

BuiltinKinds ==
    {KString, KLength, KMinLength, KMaxLength, KRegex, KOneOf, KMinRunes, KMaxRunes,
     KInt, KInt64, KMinInt, KMaxInt, KSlice, KSliceLength, KMinSliceLength, KMaxSliceLength,
     KForEach, KBool}

(* A rule of an unknown kind that lets every value pass.                   *)
unknownKindPasses(rule) == Nil

(* The closure of the default case of compileRule.                         *)
unknownKind(rule) == PlainError("unknown rule kind: " \o rule.Kind)

RECURSIVE ruleValidate(_, _, _)
RECURSIVE runRules(_, _, _, _)
RECURSIVE forEachFrom(_, _, _, _, _)

(* A function value: the validator that Compile returned for f.rules under *)
(* translator f.tr; f.id tells two compiled instances apart.               *)
FuncValue(id, tr, rules) == [id |-> id, tr |-> tr, rules |-> rules]

(* The element validator of a forEach rule, as compileRule resolves it:    *)
(* args["rules"], else Elem, else args["validator"], else none.            *)
ElemValidator(tr, rule) ==
    IF HasArg(rule, "rules") /\ rule.Args["rules"].t = "rules"
    THEN <<FuncValue(0, tr, rule.Args["rules"].rs)>>
    ELSE IF rule.Elem # NoElem
    THEN <<FuncValue(0, tr, <<rule.Elem[1]>>)>>
    ELSE IF HasArg(rule, "validator") /\ rule.Args["validator"].t = "func"
    THEN <<rule.Args["validator"].f>>
    ELSE <<>>

(* A loop that gives up at the first failing element.                      *)
forEachFromStopAtFailure(tr, elems, fn, i, acc) ==
    IF i > Len(elems) \/ acc # <<>> THEN acc
    ELSE LET err == runRules(fn.tr, fn.rules, elems[i], 1).err
             idx == <<"[", ToString(i - 1), "]">>
         IN  IF err = Nil THEN forEachFrom(tr, elems, fn, i + 1, acc)
             ELSE IF IsErrors(err)
             THEN forEachFrom(tr, elems, fn, i + 1,
                      acc \o [j \in 1..Len(err.es) |-> [err.es[j] EXCEPT !.Path = idx \o @]])
             ELSE forEachFrom(tr, elems, fn, i + 1,
                      Append(acc, FieldError(idx, CodeUnknown, err.msg)))

(* The loop of validateForEach from element i (1-based here, 0-based in    *)
(* the paths): every element is validated, the failures are accumulated.   *)
forEachFrom(tr, elems, fn, i, acc) ==
    IF i > Len(elems) THEN acc
    ELSE LET err == runRules(fn.tr, fn.rules, elems[i], 1).err
             idx == <<"[", ToString(i - 1), "]">>
         IN  IF err = Nil THEN forEachFrom(tr, elems, fn, i + 1, acc)
             ELSE IF IsErrors(err)
             THEN forEachFrom(tr, elems, fn, i + 1,
                      acc \o [j \in 1..Len(err.es) |-> [err.es[j] EXCEPT !.Path = idx \o @]])
             ELSE forEachFrom(tr, elems, fn, i + 1,
                      Append(acc, FieldError(idx, CodeUnknown, err.msg)))

validateForEach(tr, v, fn) ==
    IF v.t # "slice" THEN Fail(tr, CodeSliceType, "expected slice")
    ELSE LET acc == forEachFrom(tr, v.elems, fn, 1, <<>>)
         IN  IF Len(acc) > 0 THEN Errors(acc) ELSE Nil

(* compileRule: the closure compiled for one rule, applied to v.  A plugin *)
(* compiler registered for the kind comes before the built-in kinds.       *)
ruleValidate(tr, rule, v) ==
    CASE rule.Kind \in globalRegistry -> validateULID(tr, v)
      [] rule.Kind = KString -> validateString(tr, v)
      [] rule.Kind = KLength -> validateLength(tr, v, getIntArg(rule, "n", 0))
      [] rule.Kind = KMinLength -> validateMinLength(tr, v, getIntArg(rule, "n", 0))
      [] rule.Kind = KMaxLength -> validateMaxLength(tr, v, getIntArg(rule, "n", 0))
      [] rule.Kind = KMinRunes -> validateMinRunes(tr, v, getIntArg(rule, "n", 0))
      [] rule.Kind = KMaxRunes -> validateMaxRunes(tr, v, getIntArg(rule, "n", 0))
      [] rule.Kind = KRegex ->
            IF ~compileRegexSafe(getStringArg(rule, "pattern", <<>>))
            THEN Fail(tr, CodeStringRegexInvalidPattern, "invalid regex pattern: %s")
            ELSE validateRegexWithPattern(tr, v, getStringArg(rule, "pattern", <<>>))
      [] rule.Kind = KOneOf -> validateOneOf(tr, v, getStringSliceArg(rule, "values", <<>>))
      [] rule.Kind = KInt -> validateInt(tr, v)
      [] rule.Kind = KInt64 -> validateInt64(tr, v)
      [] rule.Kind = KMinInt -> validateMinInt(tr, v, getInt64Arg(rule, "n", 0))
      [] rule.Kind = KMaxInt -> validateMaxInt(tr, v, getInt64Arg(rule, "n", 0))
      [] rule.Kind = KSlice -> validateSlice(tr, v)
      [] rule.Kind = KSliceLength -> validateSliceLength(tr, v, getIntArg(rule, "n", 0))
      [] rule.Kind = KMinSliceLength -> validateMinSliceLength(tr, v, getIntArg(rule, "n", 0))
      [] rule.Kind = KMaxSliceLength -> validateMaxSliceLength(tr, v, getIntArg(rule, "n", 0))
      [] rule.Kind = KForEach ->
            IF ElemValidator(tr, rule) # <<>>
            THEN validateForEach(tr, v, ElemValidator(tr, rule)[1])
            ELSE Nil
      [] rule.Kind = KBool -> validateBool(tr, v)
      [] OTHER -> unknownKind(rule)

(* A loop that goes on after a failure, a later failure replacing an       *)
(* earlier one.                                                            *)
ChainStepLastWins(tr, rules, v, i, err) ==
    LET rest == runRules(tr, rules, v, i + 1)
    IN  [err |-> IF rest.err # Nil THEN rest.err ELSE err,
         evaluated |-> <<i>> \o rest.evaluated]

(* What the loop of a compiled validator does once rule i has returned     *)
(* err: return the error, or go on to rule i + 1.                          *)
ChainStep(tr, rules, v, i, err) ==
    IF err # Nil
    THEN [err |-> err, evaluated |-> <<i>>]
    ELSE LET rest == runRules(tr, rules, v, i + 1)
         IN  [err |-> rest.err, evaluated |-> <<i>> \o rest.evaluated]

(* The validator returned by Compile(rules), applied to v, from rule i:    *)
(* the error returned and the indices of the rules that were evaluated.    *)
runRules(tr, rules, v, i) ==
    IF i > Len(rules) THEN [err |-> Nil, evaluated |-> <<>>]
    ELSE ChainStep(tr, rules, v, i, ruleValidate(tr, rules[i], v))

Compile(tr, rules, v) == runRules(tr, rules, v, 1)

---------------------------------------------------------------------------
(* Canonical serialization of a rule list (core.SerializeRules) and the    *)
(* function-argument scan (core.HasFuncArgs).                              *)

(* The argument names of the model in lexicographic order, and the         *)
(* characters of the model in byte order.                                  *)
ArgKeyOrder == <<"m", "n", "pattern", "rules", "validator", "values">>
CharOrder == <<"(", ")", ".", "0", "1", "2", "3", "4", "5", "6", "7", "8", "9", "U", "a", "b", "c">>

CharRank(c) == CHOOSE i \in 1..Len(CharOrder) : CharOrder[i] = c

(* a < b for two Go strings.                                               *)
RECURSIVE StrLess(_, _)
StrLess(a, b) ==
    IF b = <<>> THEN FALSE
    ELSE IF a = <<>> THEN TRUE
    ELSE IF Head(a) = Head(b) THEN StrLess(Tail(a), Tail(b))
    ELSE CharRank(Head(a)) < CharRank(Head(b))

(* sort.Strings: insertion of each string into the sorted rest.            *)
RECURSIVE InsertSorted(_, _)
InsertSorted(x, sorted) ==
    IF sorted = <<>> THEN <<x>>
    ELSE IF StrLess(Head(sorted), x) THEN <<Head(sorted)>> \o InsertSorted(x, Tail(sorted))
    ELSE <<x>> \o sorted

RECURSIVE SortStrings(_)
SortStrings(ss) == IF ss = <<>> THEN <<>> ELSE InsertSorted(Head(ss), SortStrings(Tail(ss)))

(* "for k := range m": the keys of a map in the order this iteration       *)
(* yields them, which Go leaves open; order is that order over all keys.   *)
RangeKeys(args, order) == SelectSeq(order, LAMBDA k : k \in DOMAIN args)

KeyRank(k) == CHOOSE i \in 1..Len(ArgKeyOrder) : ArgKeyOrder[i] = k

RECURSIVE InsertKey(_, _)
InsertKey(k, sorted) ==
    IF sorted = <<>> THEN <<k>>
    ELSE IF KeyRank(Head(sorted)) < KeyRank(k) THEN <<Head(sorted)>> \o InsertKey(k, Tail(sorted))
    ELSE <<k>> \o sorted

(* Keys that are left in the order of the iteration.                       *)
SortKeysNot(keys) == keys

(* sort.Strings(keys) on the keys of a map.                                *)
RECURSIVE SortKeys(_)
SortKeys(keys) == IF keys = <<>> THEN <<>> ELSE InsertKey(Head(keys), SortKeys(Tail(keys)))

(* The keys of an Args map: collected by a range loop, then sorted.        *)
SortedKeys(args, order) == SortKeys(RangeKeys(args, order))

Quote(s) == "\"" \o Flatten(s) \o "\""

RECURSIVE JoinStr(_, _)
JoinStr(ss, sep) ==
    IF ss = <<>> THEN ""
    ELSE IF Len(ss) = 1 THEN ss[1]
    ELSE ss[1] \o sep \o JoinStr(Tail(ss), sep)

RECURSIVE SerializeRulesRanged(_, _)
RECURSIVE serializeArg(_, _)
RECURSIVE writeRule(_, _)

(* "k:v" for every key of a map in sorted order, joined by ",".            *)
writeArgs(args, order) ==
    LET keys == SortedKeys(args, order)
    IN  JoinStr([i \in 1..Len(keys) |-> keys[i] \o ":" \o serializeArg(args[keys[i]], order)], ",")

serializeArg(a, order) ==
    CASE a.t = "string" -> Quote(a.s)
      [] a.t \in IntTypes -> ToString(a.n)
      [] a.t = "strings" ->
            "[" \o JoinStr([i \in 1..Len(a.ss) |-> Quote(SortStrings(a.ss)[i])], ",") \o "]"
      [] a.t = "rules" -> SerializeRulesRanged(a.rs, order)
      [] a.t = "map" -> "{" \o writeArgs(a.m, order) \o "}"
      [] a.t = "func" -> "\"fn\""

(* writeRule: the kind and the arguments; Elem is not written.             *)
writeRule(r, order) ==
    "{kind:" \o r.Kind
        \o (IF DOMAIN r.Args # {} THEN ",args:{" \o writeArgs(r.Args, order) \o "}" ELSE "")
        \o "}"

(* SerializeRules when the range loops over maps yield the keys in order.  *)
SerializeRulesRanged(rules, order) ==
    "[" \o JoinStr([i \in 1..Len(rules) |-> writeRule(rules[i], order)], ",") \o "]"

(* SerializeRules(rules): the cache key of a rule list.                    *)
SerializeRules(rules) == SerializeRulesRanged(rules, ArgKeyOrder)

RECURSIVE argHasFunc(_)
RECURSIVE ruleHasFunc(_)

(* argHasFunc on a Rule struct value: its exported fields Kind, Args and   *)
(* Elem are scanned.                                                       *)
ruleHasFunc(r) ==
    \/ \E k \in DOMAIN r.Args : argHasFunc(r.Args[k])
    \/ r.Elem # NoElem /\ ruleHasFunc(r.Elem[1])

argHasFunc(a) ==
    CASE a.t = "func" -> TRUE
      [] a.t = "rules" -> \E i \in 1..Len(a.rs) : ruleHasFunc(a.rs[i])
      [] a.t = "map" -> \E k \in DOMAIN a.m : argHasFunc(a.m[k])
      [] OTHER -> FALSE

(* HasFuncArgs scans the Args map of every rule of the list.               *)
RuleArgsHaveFunc(r) == \E k \in DOMAIN r.Args : argHasFunc(r.Args[k])

HasFuncArgs(rules) == \E i \in 1..Len(rules) : RuleArgsHaveFunc(rules[i])

---------------------------------------------------------------------------
(* Engine (core.Engine): configuration and the compilation cache.          *)
(* engine.compiled is the sync.Map, a function from key strings to the     *)
(* stored validators; engine.next numbers the validators compiled so far,  *)
(* which gives every compiled closure its identity.                        *)

ckTag == "tag:"
ckAST == "ast:"

NewEngineWithCustomRules(custom) ==
    [customRules |-> custom, translator |-> "nil", pathSep |-> ".",
     compiled |-> <<>>, next |-> 1]

NewEngine == NewEngineWithCustomRules(<<>>)

(* An Engine that takes the receiver's cache along.                        *)
WithTranslatorKeepingCache(e, t) ==
    [customRules |-> e.customRules, translator |-> t, pathSep |-> e.pathSep,
     compiled |-> e.compiled, next |-> 1]

WithTranslator(e, t) ==
    [customRules |-> e.customRules, translator |-> t, pathSep |-> e.pathSep,
     compiled |-> <<>>, next |-> 1]

(* A PathSeparator that takes the empty separator as well.                 *)
PathSeparatorTakingEmpty(e, sep) ==
    [customRules |-> e.customRules, translator |-> e.translator,
     pathSep |-> sep, compiled |-> <<>>, next |-> 1]

PathSeparator(e, sep) ==
    [customRules |-> e.customRules, translator |-> e.translator,
     pathSep |-> IF sep # "" THEN sep ELSE e.pathSep,
     compiled |-> <<>>, next |-> 1]

(* sync.Map.Load: <<>> when the key is absent.                             *)
Load(compiled, key) == IF key \in DOMAIN compiled THEN <<compiled[key]>> ELSE <<>>

(* sync.Map.Store in the place of LoadOrStore: the given value always      *)
(* replaces the entry and is the one returned.                             *)
StoreOverwriting(compiled, key, fn) ==
    [actual |-> fn, loaded |-> FALSE,
     compiled |-> [k \in DOMAIN compiled \cup {key} |-> IF k = key THEN fn ELSE compiled[k]]]

(* sync.Map.LoadOrStore: the existing value when the key is present,       *)
(* otherwise the given value, which is stored.                             *)
LoadOrStore(compiled, key, fn) ==
    IF key \in DOMAIN compiled
    THEN [actual |-> compiled[key], loaded |-> TRUE, compiled |-> compiled]
    ELSE [actual |-> fn, loaded |-> FALSE, compiled |-> (key :> fn) @@ compiled]

(* A FromRules that never looks into the custom-rule table.                *)
IsCustomCallNever(e, tokens) == FALSE

(* Whether FromRules answers from the custom-rule table.                   *)
IsCustomCall(e, tokens) ==
    Len(tokens) = 1 /\ Flatten(tokens[1]) \in DOMAIN e.customRules

TagKey(tokens) == ckTag \o Flatten(Join(tokens, ";"))
ASTKey(rules) == ckAST \o SerializeRules(rules)

(* types.NewCompiler(e.translator).Compile(rules): a new closure.          *)
NewValidator(e, rules) == FuncValue(e.next, e.translator, rules)

(* A compile whose result is returned but never put into the cache.        *)
StoreCompiledNotStored(e, key, rules) ==
    [fn |-> <<NewValidator(e, rules)>>, err |-> "", e |-> [e EXCEPT !.next = @ + 1]]

(* The compile-and-store tail of FromRules and CompileRules.               *)
StoreCompiled(e, key, rules) ==
    LET fn == NewValidator(e, rules)
        st == LoadOrStore(e.compiled, key, fn)
    IN  [fn |-> <<st.actual>>, err |-> "",
         e |-> [e EXCEPT !.compiled = st.compiled, !.next = @ + 1]]

(* A FromRules that puts an entry into the cache for a tag that does not   *)
(* parse.                                                                  *)
FromRulesStoringFailure(e, tokens) ==
    IF Len(tokens) = 0 THEN [fn |-> <<>>, err |-> "empty rules", e |-> e]
    ELSE IF IsCustomCall(e, tokens)
    THEN [fn |-> <<e.customRules[Flatten(tokens[1])]>>, err |-> "", e |-> e]
    ELSE IF Load(e.compiled, TagKey(tokens)) # <<>>
    THEN [fn |-> Load(e.compiled, TagKey(tokens)), err |-> "", e |-> e]
    ELSE IF ParseTag(Join(tokens, ";")).err # ""
    THEN [fn |-> <<>>, err |-> "parse rules: " \o ParseTag(Join(tokens, ";")).err,
          e |-> StoreCompiled(e, TagKey(tokens), <<>>).e]
    ELSE StoreCompiled(e, TagKey(tokens), ParseTag(Join(tokens, ";")).rules)

(* Engine.FromRules(tokens): (validator, error) and the engine after.      *)
FromRules(e, tokens) ==
    IF Len(tokens) = 0 THEN [fn |-> <<>>, err |-> "empty rules", e |-> e]
    ELSE IF IsCustomCall(e, tokens)
    THEN [fn |-> <<e.customRules[Flatten(tokens[1])]>>, err |-> "", e |-> e]
    ELSE IF Load(e.compiled, TagKey(tokens)) # <<>>
    THEN [fn |-> Load(e.compiled, TagKey(tokens)), err |-> "", e |-> e]
    ELSE IF ParseTag(Join(tokens, ";")).err # ""
    THEN [fn |-> <<>>, err |-> "parse rules: " \o ParseTag(Join(tokens, ";")).err, e |-> e]
    ELSE StoreCompiled(e, TagKey(tokens), ParseTag(Join(tokens, ";")).rules)

(* Engine.CompileRules(rules): the validator and the engine after.         *)
CompileRules(e, rules) ==
    IF HasFuncArgs(rules)
    THEN [fn |-> <<NewValidator(e, rules)>>, err |-> "", e |-> [e EXCEPT !.next = @ + 1]]
    ELSE IF Load(e.compiled, ASTKey(rules)) # <<>>
    THEN [fn |-> Load(e.compiled, ASTKey(rules)), err |-> "", e |-> e]
    ELSE StoreCompiled(e, ASTKey(rules), rules)

(* Validate.FromTag(tag) of the glue layer.                                *)
FromTag(e, tag) ==
    IF tag = <<>> THEN [fn |-> <<FuncValue(0, e.translator, <<>>)>>, err |-> "", e |-> e]
    ELSE FromRules(e, <<tag>>)

(* Calling a validator function on a value.                                *)
Apply(fn, v) == Compile(fn.tr, fn.rules, v)

---------------------------------------------------------------------------
(* Inputs of the cache model.                                              *)

(* Validator functions written by the caller: the custom rules of an       *)
(* Engine and the functions passed as a "validator" argument.  The rule    *)
(* list of such a value gives its behaviour.                               *)
customFn == FuncValue(100, "nil", <<NewRule(KBool, NoArgs)>>)
fnA == FuncValue(101, "nil", <<NewRule(KString, NoArgs)>>)
fnB == FuncValue(102, "nil", <<NewRule(KInt, NoArgs)>>)

(* Custom-rule tables an Engine is built with (NewEngineWithCustomRules,   *)
(* WithCustomRule): none, a plain name, and a name that is itself a tag.   *)
CustomTables ==
    { <<>>,
      [myRule |-> customFn],
      (Flatten(<<"string", ";", "min=", "3">>) :> customFn) }

TokenLists ==
    { <<>>,
      << <<>> >>,
      << <<"string">>, <<"min=", "3">> >>,
      << <<"string", ";", "min=", "3">> >>,
      << <<"int">>, <<"min=", "1">> >>,
      << <<"myRule">> >>,
      << <<"slice">>, <<"foreach=", "(", "string", ";", "min=", "2", ")">> >> }

forEachFn(f) == NewRule(KForEach, [validator |-> AFunc(f)])

RuleLists ==
    { <<NewRule(KString, NoArgs), NewRule(KMinLength, [n |-> AInt64(3)])>>,
      <<NewRule(KSlice, NoArgs), NewRule(KForEach, [rules |-> ARules(<<NewRule(KString, NoArgs)>>)])>>,
      <<NewRule(KSlice, NoArgs), forEachFn(fnA)>>,
      <<NewRule(KSlice, NoArgs), forEachFn(fnB)>>,
      <<NewRule(KSlice, NoArgs), NewRule(KForEach, [rules |-> ARules(<<forEachFn(fnA)>>)])>>,
      <<NewRule("custom", [m |-> AMap([validator |-> AFunc(fnB)])])>>,
      <<NewRuleWithElem(KForEach, NoArgs, forEachFn(fnA))>>,
      <<NewRuleWithElem(KForEach, NoArgs, forEachFn(fnB))>> }

(* Whether a rule list carries a function value anywhere: in an argument,  *)
(* in a nested map or rule list, or in an element rule.                    *)
CarriesFunc(rules) == \E i \in 1..Len(rules) : ruleHasFunc(rules[i])

---------------------------------------------------------------------------
(* Sequential calls on one Engine.                                         *)

Idle == <<>>

InitCache ==
    /\ engine \in {NewEngineWithCustomRules(c) : c \in CustomTables}
    /\ calls = <<>>
    /\ procs = Idle /\ evalIn = Idle /\ evalOut = Idle
    /\ walkIn = Idle /\ walkOut = Idle /\ heap = Idle
    /\ pureIn = Idle /\ pureOut = Idle

(* One finished call: its input, what it returned, and the cache before    *)
(* and after it.                                                           *)
CallRecord(op, tokens, rules, res, e) ==
    [op |-> op, tokens |-> tokens, rules |-> rules,
     fn |-> res.fn, err |-> res.err,
     custom |-> op = "FromRules" /\ Len(tokens) > 0 /\ IsCustomCall(e, tokens),
     fresh |-> res.fn # <<>> /\ res.fn[1].id = e.next,
     before |-> e.compiled, after |-> res.e.compiled]

CallFromRules ==
    /\ Len(calls) < MaxCalls
    /\ \E tokens \in TokenLists :
          /\ engine' = FromRules(engine, tokens).e
          /\ calls' = Append(calls, CallRecord("FromRules", tokens, <<>>, FromRules(engine, tokens), engine))
    /\ UNCHANGED <<procs, evalIn, evalOut, walkIn, walkOut, heap, pureIn, pureOut>>

CallCompileRules ==
    /\ Len(calls) < MaxCalls
    /\ \E rules \in RuleLists :
          /\ engine' = CompileRules(engine, rules).e
          /\ calls' = Append(calls, CallRecord("CompileRules", <<>>, rules, CompileRules(engine, rules), engine))
    /\ UNCHANGED <<procs, evalIn, evalOut, walkIn, walkOut, heap, pureIn, pureOut>>

NextCache == CallFromRules \/ CallCompileRules

Spec == InitCache /\ [][NextCache]_vars

---------------------------------------------------------------------------
(* Cache identity.                                                         *)

CallTag(c) == Flatten(Join(c.tokens, ";"))

(* Calls i < j of FromRules that both succeeded on the same joined tag.    *)
SameTagCalls(i, j) ==
    /\ i < j
    /\ calls[i].op = "FromRules" /\ calls[j].op = "FromRules"
    /\ calls[i].err = "" /\ calls[j].err = ""
    /\ calls[i].fn # <<>> /\ calls[j].fn # <<>>
    /\ CallTag(calls[i]) = CallTag(calls[j])

(* Calls i < j of CompileRules with rule lists that carry no function      *)
(* value and serialize identically.                                        *)
SameASTCalls(i, j) ==
    /\ i < j
    /\ calls[i].op = "CompileRules" /\ calls[j].op = "CompileRules"
    /\ ~CarriesFunc(calls[i].rules) /\ ~CarriesFunc(calls[j].rules)
    /\ SerializeRules(calls[i].rules) = SerializeRules(calls[j].rules)

SameInstance ==
    \A i \in 1..Len(calls) : \A j \in 1..Len(calls) :
        /\ SameTagCalls(i, j) /\ ~calls[i].custom /\ ~calls[j].custom
              => calls[j].fn = calls[i].fn
        /\ SameASTCalls(i, j) => calls[j].fn = calls[i].fn

(* A step keeps every cache entry: no key leaves, no value changes.        *)
CacheKept ==
    \A k \in DOMAIN engine.compiled :
        k \in DOMAIN engine'.compiled /\ engine'.compiled[k] = engine.compiled[k]

(* C1 (amended): on one Engine, every FromRules call that is not answered  *)
(* from the custom-rule table returns the same validator instance as the   *)
(* first successful such call with the same joined tag; every CompileRules *)
(* call with a rule list that carries no function value returns the same   *)
(* instance as the first call with the same canonical serialization; and   *)
(* no cache entry is ever replaced or evicted.                             *)
C1_CacheIdentity == []SameInstance /\ [][CacheKept]_vars

(* C1 witness: a tag is compiled, another key is compiled and stored, and  *)
(* a later call with the first tag, split into tokens differently or not,  *)
(* gets the first instance back while both entries are in the cache.       *)
C1_Witness ==
    /\ Len(calls) = 3
    /\ SameTagCalls(1, 3) /\ ~calls[1].custom /\ ~calls[3].custom
    /\ calls[1].fresh /\ calls[2].fresh /\ ~calls[3].fresh
    /\ calls[3].fn = calls[1].fn
    /\ calls[2].op = "CompileRules" /\ ~CarriesFunc(calls[2].rules)
    /\ Cardinality(DOMAIN engine.compiled) = 2

(* C1 as stated: every two successful FromRules calls whose tokens join to *)
(* the same tag return the same instance.                                  *)
C1_AsStated ==
    \A i \in 1..Len(calls) : \A j \in 1..Len(calls) :
        SameTagCalls(i, j) => calls[j].fn = calls[i].fn

(* C2 as stated: a CompileRules call with a rule list that carries a       *)
(* function value anywhere (an argument, a nested map or rule list, an     *)
(* element rule) compiles a new validator and leaves the cache as it was.  *)
C2_FuncArgsBypass ==
    \A i \in 1..Len(calls) :
        calls[i].op = "CompileRules" /\ CarriesFunc(calls[i].rules)
            => calls[i].fresh /\ calls[i].after = calls[i].before

---------------------------------------------------------------------------
(* Concurrent callers of FromRules and CompileRules on one Engine.  Each   *)
(* caller makes one call; the call's accesses to the shared cache (Load,   *)
(* LoadOrStore) are separate atomic steps with the compilation between.    *)

Callers == 1..NumCallers

ConcTokenLists ==
    { << <<"string">>, <<"min=", "3">> >>,
      << <<"string", ";", "min=", "3">> >>,
      << <<"int">>, <<"min=", "x">> >> }

ConcRuleLists ==
    { <<NewRule(KString, NoArgs), NewRule(KMinLength, [n |-> AInt64(3)])>>,
      <<NewRule(KSlice, NoArgs), forEachFn(fnA)>> }

(* A caller: where it is in its call, the call's input, the cache key, the *)
(* validator it compiled itself, and what it returned.                     *)
Caller(pc, op, tokens, rules, key, own, ret, err) ==
    [pc |-> pc, op |-> op, tokens |-> tokens, rules |-> rules, key |-> key,
     own |-> own, ret |-> ret, err |-> err]

InitConc ==
    /\ engine \in {NewEngineWithCustomRules(c) : c \in CustomTables}
    /\ procs = [p \in Callers |-> Caller("idle", "", <<>>, <<>>, "", <<>>, <<>>, "")]
    /\ calls = Idle /\ evalIn = Idle /\ evalOut = Idle
    /\ walkIn = Idle /\ walkOut = Idle /\ heap = Idle
    /\ pureIn = Idle /\ pureOut = Idle

(* FromRules up to the cache lookup: the custom-rule table answers at      *)
(* once, any other call goes on to Load with its key.                      *)
BeginFromRules(p) ==
    /\ procs[p].pc = "idle"
    /\ \E tokens \in ConcTokenLists :
          procs' = [procs EXCEPT ![p] =
              IF IsCustomCall(engine, tokens)
              THEN Caller("done", "FromRules", tokens, <<>>, "", <<>>,
                          <<engine.customRules[Flatten(tokens[1])]>>, "")
              ELSE Caller("load", "FromRules", tokens, <<>>, TagKey(tokens), <<>>, <<>>, "")]
    /\ UNCHANGED <<engine, calls, evalIn, evalOut, walkIn, walkOut, heap, pureIn, pureOut>>

(* CompileRules up to the cache lookup: a rule list with function          *)
(* arguments is compiled and returned at once.                             *)
BeginCompileRules(p) ==
    /\ procs[p].pc = "idle"
    /\ \E rules \in ConcRuleLists :
          IF HasFuncArgs(rules)
          THEN /\ procs' = [procs EXCEPT ![p] =
                      Caller("done", "CompileRules", <<>>, rules, "",
                             <<NewValidator(engine, rules)>>, <<NewValidator(engine, rules)>>, "")]
               /\ engine' = [engine EXCEPT !.next = @ + 1]
          ELSE /\ procs' = [procs EXCEPT ![p] =
                      Caller("load", "CompileRules", <<>>, rules, ASTKey(rules), <<>>, <<>>, "")]
               /\ engine' = engine
    /\ UNCHANGED <<calls, evalIn, evalOut, walkIn, walkOut, heap, pureIn, pureOut>>

(* e.compiled.Load(key): a hit is returned.                                *)
DoLoad(p) ==
    /\ procs[p].pc = "load"
    /\ procs' = [procs EXCEPT ![p] =
          IF Load(engine.compiled, procs[p].key) # <<>>
          THEN [@ EXCEPT !.pc = "done", !.ret = Load(engine.compiled, procs[p].key)]
          ELSE [@ EXCEPT !.pc = "compile"]]
    /\ UNCHANGED <<engine, calls, evalIn, evalOut, walkIn, walkOut, heap, pureIn, pureOut>>

(* ParseTag (FromRules only) and Compile: a parse error is returned, a     *)
(* compiled validator is held for the store.                               *)
DoCompile(p) ==
    /\ procs[p].pc = "compile"
    /\ IF procs[p].op = "FromRules" /\ ParseTag(Join(procs[p].tokens, ";")).err # ""
       THEN /\ procs' = [procs EXCEPT ![p] =
                   [@ EXCEPT !.pc = "done",
                             !.err = "parse rules: " \o ParseTag(Join(procs[p].tokens, ";")).err]]
            /\ engine' = engine
       ELSE /\ procs' = [procs EXCEPT ![p] =
                   [@ EXCEPT !.pc = "store",
                             !.own = <<NewValidator(engine,
                                         IF procs[p].op = "FromRules"
                                         THEN ParseTag(Join(procs[p].tokens, ";")).rules
                                         ELSE procs[p].rules)>>]]
            /\ engine' = [engine EXCEPT !.next = @ + 1]
    /\ UNCHANGED <<calls, evalIn, evalOut, walkIn, walkOut, heap, pureIn, pureOut>>

(* e.compiled.LoadOrStore(key, fn): the entry already there, or else the   *)
(* caller's own validator, is returned.                                    *)
DoStore(p) ==
    /\ procs[p].pc = "store"
    /\ engine' = [engine EXCEPT
          !.compiled = LoadOrStore(engine.compiled, procs[p].key, procs[p].own[1]).compiled]
    /\ procs' = [procs EXCEPT ![p] =
          [@ EXCEPT !.pc = "done",
                    !.ret = <<LoadOrStore(engine.compiled, procs[p].key, procs[p].own[1]).actual>>]]
    /\ UNCHANGED <<calls, evalIn, evalOut, walkIn, walkOut, heap, pureIn, pureOut>>

NextConc ==
    \E p \in Callers :
        \/ BeginFromRules(p)
        \/ BeginCompileRules(p)
        \/ DoLoad(p)
        \/ DoCompile(p)
        \/ DoStore(p)

SpecConc == InitConc /\ [][NextConc]_vars

(* A caller whose call went through the cache and returned a validator.    *)
ReturnedCached(p) ==
    procs[p].pc = "done" /\ procs[p].key # "" /\ procs[p].ret # <<>>

AgreeOnStored ==
    \A p \in Callers :
        ReturnedCached(p) =>
            /\ procs[p].key \in DOMAIN engine.compiled
            /\ procs[p].ret = <<engine.compiled[procs[p].key]>>
            /\ \A q \in Callers :
                  ReturnedCached(q) /\ procs[q].key = procs[p].key
                      => procs[q].ret = procs[p].ret

(* C3: when callers race on one cache key, every one of them returns the   *)
(* instance that was stored first: a caller that finds an entry at its     *)
(* store drops its own compiled validator, the entry is the only one for   *)
(* the key, and it is never replaced afterwards.                           *)
C3_StoreIfAbsent == []AgreeOnStored /\ [][CacheKept]_vars

(* C3 witness: two callers missed the same key, both compiled, and both    *)
(* returned one instance, which one of them had to take from the cache in  *)
(* place of its own.                                                       *)
C3_Witness ==
    \E p \in Callers : \E q \in Callers :
        /\ p # q /\ ReturnedCached(p) /\ ReturnedCached(q)
        /\ procs[p].key = procs[q].key
        /\ procs[p].own # <<>> /\ procs[q].own # <<>> /\ procs[p].own # procs[q].own
        /\ procs[p].ret = procs[q].ret /\ procs[q].ret # procs[q].own

---------------------------------------------------------------------------
(* Builders (glue.StringBuilder, IntBuilder, BoolBuilder, SliceBuilder)    *)
(* and the tag that expresses a builder chain.                             *)

(* A builder chain: the base type and the methods called on the builder.   *)
Step(meth, n, vals, pat, inner) == [m |-> meth, n |-> n, vals |-> vals, pat |-> pat, inner |-> inner]
StepN(meth, n) == Step(meth, n, <<>>, <<>>, <<>>)
Chain(base, steps) == [base |-> base, steps |-> steps]

RECURSIVE BuilderRules(_)
RECURSIVE TagOf(_)

(* The rule a builder method appends.                                      *)
BuilderRule(base, st) ==
    CASE base = "string" /\ st.m = "Length" -> <<NewRule(KLength, [n |-> AInt64(st.n)])>>
      [] base = "string" /\ st.m = "MinLength" -> <<NewRule(KMinLength, [n |-> AInt64(st.n)])>>
      [] base = "string" /\ st.m = "MaxLength" -> <<NewRule(KMaxLength, [n |-> AInt64(st.n)])>>
      [] base = "string" /\ st.m = "MinRunes" -> <<NewRule(KMinRunes, [n |-> AInt64(st.n)])>>
      [] base = "string" /\ st.m = "MaxRunes" -> <<NewRule(KMaxRunes, [n |-> AInt64(st.n)])>>
      [] base = "string" /\ st.m = "OneOf" -> <<NewRule(KOneOf, [values |-> AStrs(st.vals)])>>
      [] base = "string" /\ st.m = "Regex" -> <<NewRule(KRegex, [pattern |-> AStr(st.pat)])>>
      [] base \in {"int", "int64"} /\ st.m = "MinInt" -> <<NewRule(KMinInt, [n |-> AInt64(st.n)])>>
      [] base \in {"int", "int64"} /\ st.m = "MaxInt" -> <<NewRule(KMaxInt, [n |-> AInt64(st.n)])>>
      [] base = "slice" /\ st.m = "Length" -> <<NewRule(KSliceLength, [n |-> AInt64(st.n)])>>
      [] base = "slice" /\ st.m = "MinLength" -> <<NewRule(KMinSliceLength, [n |-> AInt64(st.n)])>>
      [] base = "slice" /\ st.m = "MaxLength" -> <<NewRule(KMaxSliceLength, [n |-> AInt64(st.n)])>>
      [] base = "slice" /\ st.m = "ForEachRules" ->
            IF BuilderRules(st.inner[1]) = <<>> THEN <<>>
            ELSE <<NewRule(KForEach, [rules |-> ARules(BuilderRules(st.inner[1]))])>>

(* v.String(), v.Int(), v.Int64(), v.Bool(), v.Slice() and the methods     *)
(* called on the builder, up to Build().                                   *)
BuilderRules(chain) ==
    <<NewRule(chain.base, NoArgs)>>
        \o ConcatAll([i \in 1..Len(chain.steps) |-> BuilderRule(chain.base, chain.steps[i])])

(* The tag segment that the tag tables document for a builder method.      *)
TagSegment(base, st) ==
    CASE st.m = "Length" -> <<"len=", ToString(st.n)>>
      [] st.m \in {"MinLength", "MinInt"} -> <<"min=", ToString(st.n)>>
      [] st.m \in {"MaxLength", "MaxInt"} -> <<"max=", ToString(st.n)>>
      [] st.m = "MinRunes" -> <<"minRunes=", ToString(st.n)>>
      [] st.m = "MaxRunes" -> <<"maxRunes=", ToString(st.n)>>
      [] st.m = "OneOf" -> <<"oneof=">> \o Join(st.vals, ",")
      [] st.m = "Regex" -> <<"regex=">> \o st.pat
      [] st.m = "ForEachRules" -> <<"foreach=", "(">> \o TagOf(st.inner[1]) \o <<")">>

TagOf(chain) ==
    Join(<< <<chain.base>> >> \o [i \in 1..Len(chain.steps) |-> TagSegment(chain.base, chain.steps[i])], ";")

---------------------------------------------------------------------------
(* Invocations of compiled validators.  A behaviour is one invocation: it  *)
(* starts from a new Engine, compiles on it and calls the validator on one *)
(* value.                                                                  *)

Chains ==
    { Chain("string", <<>>),
      Chain("string", <<StepN("MinLength", 3), StepN("MaxLength", 5)>>),
      Chain("string", <<StepN("Length", 3)>>),
      Chain("string", <<StepN("MinRunes", 3)>>),
      Chain("string", <<StepN("MaxRunes", 2)>>),
      Chain("string", <<Step("OneOf", 0, << <<"a", "b">>, <<"c">> >>, <<>>, <<>>)>>),
      Chain("string", <<Step("Regex", 0, <<>>, <<"a", ".", "c">>, <<>>)>>),
      Chain("string", <<Step("Regex", 0, <<>>, <<"(", "a">>, <<>>)>>),
      Chain("int", <<StepN("MinInt", 1), StepN("MaxInt", 5)>>),
      Chain("int64", <<StepN("MinInt", 1)>>),
      Chain("bool", <<>>),
      Chain("slice", <<StepN("MinLength", 1), StepN("MaxLength", 2)>>),
      Chain("slice", <<StepN("Length", 3)>>),
      Chain("slice", <<StepN("MinLength", 1),
                       Step("ForEachRules", 0, <<>>, <<>>, <<Chain("string", <<StepN("MinLength", 2)>>)>>)>>) }

Strs(ss) == VSlice([i \in 1..Len(ss) |-> VStr(ss[i])])

EvalValues ==
    { VNil, VBool(TRUE),
      VStr(<<>>), VStr(<<"a", "b">>), VStr(<<"a", "b", "c">>), VStr(<<"a", "U">>),
      VStr(<<"a", "b", "c", "a", "b", "c">>), VStr(<<"c">>),
      VInt("int", 0), VInt("int", 3), VInt("int64", 9), VInt("uint64", MaxInt64 + 1),
      VInt("int8", -1), VInt("uint8", 7), VInt("uint", MaxInt64 + 1), VInt("uint64", MaxInt64),
      VInt("int64", 0), VStringer(<<"a", "b", "c">>),
      Strs(<<>>), Strs(<< <<"a">>, <<"b", "b">>, <<"c">> >>), Strs(<< <<"a", "a">>, <<"b", "b">> >>),
      VSlice(<<VInt("int", 1), VStr(<<"a", "b">>), VBool(FALSE)>>) }

(* Rule lists handed to CompileRules directly.                             *)
EvalRuleLists ==
    {BuilderRules(c) : c \in Chains}
      \cup {ParseTag(<<"string", ";", "min=", "3", ";", "max=", "5">>).rules,
            ParseTag(<<"slice", ";", "foreach=", "(", "string", ";", "min=", "2", ";", "nope", ")">>).rules,
            <<NewRule(KSlice, NoArgs), forEachFn(fnA)>>,
            <<forEachFn(fnB)>>,
            <<NewRuleWithElem(KForEach, NoArgs, NewRule(KMinLength, [n |-> AInt(2)]))>>,
            <<NewRule(KForEach, NoArgs)>>,
            <<NewRule(KForEach, [rules |-> ARules(<<NewRule(KString, NoArgs)>>)])>>,
            <<NewRule(KString, NoArgs), NewRule("nope", NoArgs), NewRule(KMinLength, [n |-> AInt(3)])>>,
            <<NewRule(KMinLength, [n |-> AInt(3)]), NewRule(KMinRunes, [n |-> AInt(3)]),
              NewRule(KRegex, [pattern |-> AStr(<<"(">>)])>>,
            <<NewRule(KString, NoArgs), NewRule(KULID, NoArgs)>>,
            <<NewRule("", NoArgs)>>,
            <<NewRule(KString, NoArgs), NewRule(KMinLength, [n |-> AInt(2)]), NewRule("nope", [n |-> AInt(1)])>>,
            <<>>}

InitEval ==
    /\ engine = NewEngine
    /\ evalIn = Idle /\ evalOut = Idle
    /\ calls = Idle /\ procs = Idle /\ walkIn = Idle /\ walkOut = Idle /\ heap = Idle
    /\ pureIn = Idle /\ pureOut = Idle

NoResult == [err |-> Nil, evaluated |-> <<>>]

(* v := New().WithTranslator(tr); tagV, err := v.FromTag(tag);             *)
(* builderV := builder chain .Build(); tagV(value); builderV(value).       *)
CompareTagBuilder ==
    \E chain \in Chains : \E v \in EvalValues : \E tr \in Translators :
        LET e0 == WithTranslator(NewEngine, tr)
            t == FromTag(e0, TagOf(chain))
            b == CompileRules(t.e, BuilderRules(chain))
        IN  /\ evalIn = Idle
            /\ evalIn' = [op |-> "compare", chain |-> <<chain>>, rules |-> BuilderRules(chain),
                          v |-> v, tr |-> tr]
            /\ evalOut' = [tagErr |-> t.err,
                           tag |-> IF t.err = "" THEN Apply(t.fn[1], v) ELSE NoResult,
                           builder |-> Apply(b.fn[1], v)]
            /\ engine' = b.e
            /\ UNCHANGED <<calls, procs, walkIn, walkOut, heap, pureIn, pureOut>>

(* v := New().WithTranslator(tr); v.CompileRules(rules)(value).            *)
InvokeRules ==
    \E rules \in EvalRuleLists : \E v \in EvalValues : \E tr \in Translators :
        LET e0 == WithTranslator(NewEngine, tr)
            b == CompileRules(e0, rules)
        IN  /\ evalIn = Idle
            /\ evalIn' = [op |-> "rules", chain |-> <<>>, rules |-> rules, v |-> v, tr |-> tr]
            /\ evalOut' = [tagErr |-> "", tag |-> NoResult, builder |-> Apply(b.fn[1], v)]
            /\ engine' = b.e
            /\ UNCHANGED <<calls, procs, walkIn, walkOut, heap, pureIn, pureOut>>

NextEval == CompareTagBuilder \/ InvokeRules

SpecEval == InitEval /\ [][NextEval]_vars

(* The codes an error reports: those of its FieldErrors; none for an error *)
(* that is not an Errors collection.                                       *)
CodesOf(err) == IF IsErrors(err) THEN [i \in 1..Len(err.es) |-> err.es[i].Code] ELSE <<>>

Compared == evalIn # Idle /\ evalIn.op = "compare" /\ evalOut.tagErr = ""
Invoked == evalIn # Idle /\ evalIn.op = "rules"

(* C4 as stated: a chain's tag validator and builder validator agree on    *)
(* every value: both accept or both reject, and with the same codes.       *)
C4_TagBuilderAgree ==
    Compared =>
        /\ (evalOut.tag.err = Nil) <=> (evalOut.builder.err = Nil)
        /\ evalOut.tag.err.k = evalOut.builder.err.k
        /\ CodesOf(evalOut.tag.err) = CodesOf(evalOut.builder.err)

(* The rules of a list that fail on v, each taken on its own.              *)
FailingRules(tr, rules, v) == {i \in 1..Len(rules) : ruleValidate(tr, rules[i], v) # Nil}

FirstFailing(tr, rules, v) ==
    CHOOSE i \in FailingRules(tr, rules, v) : \A j \in FailingRules(tr, rules, v) : i <= j

(* C5: a validator compiled from rules [r1..rn] evaluates the rules in     *)
(* list order and returns the error of the first rule that fails; no rule  *)
(* after it is evaluated; the validator returns nil only when every rule   *)
(* passes, and then every rule was evaluated.                              *)
C5_FirstFailureWins ==
    evalIn # Idle =>
        IF FailingRules(evalIn.tr, evalIn.rules, evalIn.v) = {}
        THEN /\ evalOut.builder.err = Nil
             /\ evalOut.builder.evaluated = [i \in 1..Len(evalIn.rules) |-> i]
        ELSE /\ evalOut.builder.err =
                    ruleValidate(evalIn.tr, evalIn.rules[FirstFailing(evalIn.tr, evalIn.rules, evalIn.v)], evalIn.v)
             /\ evalOut.builder.err # Nil
             /\ evalOut.builder.evaluated =
                    [i \in 1..FirstFailing(evalIn.tr, evalIn.rules, evalIn.v) |-> i]

(* C5 witness: a chain of three rules on a value that the first and a      *)
(* later rule reject: only string.min is reported and the later rules were *)
(* not evaluated.                                                          *)
C5_Witness ==
    /\ Invoked
    /\ Len(evalIn.rules) = 3
    /\ CodesOf(evalOut.builder.err) = <<CodeStringMin>>
    /\ evalOut.builder.evaluated = <<1>>
    /\ \E j \in {2, 3} : ruleValidate(evalIn.tr, evalIn.rules[j], evalIn.v) # Nil

(* The failures of element i (1-based) of a slice under validator fn, with *)
(* the element's 0-based index in brackets put before each path.           *)
ElemFailures(fn, elems, i) ==
    LET err == Apply(fn, elems[i]).err
        idx == <<"[", ToString(i - 1), "]">>
    IN  IF err = Nil THEN <<>>
        ELSE IF IsErrors(err)
        THEN [j \in 1..Len(err.es) |-> [err.es[j] EXCEPT !.Path = idx \o @]]
        ELSE <<FieldError(idx, CodeUnknown, err.msg)>>

AllElemFailures(fn, elems) == ConcatAll([i \in 1..Len(elems) |-> ElemFailures(fn, elems, i)])

(* The rule of the invocation that was evaluated last.                     *)
LastEvaluated == evalIn.rules[evalOut.builder.evaluated[Len(evalOut.builder.evaluated)]]

ForEachReturned ==
    /\ evalIn # Idle
    /\ evalOut.builder.evaluated # <<>>
    /\ LastEvaluated.Kind = KForEach
    /\ ElemValidator(evalIn.tr, LastEvaluated) # <<>>
    /\ evalIn.v.t = "slice"

(* C6: a forEach rule applies its element validator to every element of   *)
(* the slice and returns the failures of all failing elements in index     *)
(* order, each path prefixed with [i]; it returns nil when no element      *)
(* fails.                                                                  *)
C6_ForEachExhaustive ==
    ForEachReturned =>
        LET all == AllElemFailures(ElemValidator(evalIn.tr, LastEvaluated)[1], evalIn.v.elems)
        IN  evalOut.builder.err = IF all = <<>> THEN Nil ELSE Errors(all)

(* C6 witness: elements [fails, passes, fails] give exactly two failures,  *)
(* at [0] and [2].                                                         *)
C6_Witness ==
    /\ ForEachReturned
    /\ Len(evalIn.v.elems) = 3
    /\ Apply(ElemValidator(evalIn.tr, LastEvaluated)[1], evalIn.v.elems[2]).err = Nil
    /\ IsErrors(evalOut.builder.err)
    /\ [i \in 1..Len(evalOut.builder.err.es) |-> evalOut.builder.err.es[i].Path]
          = << <<"[", "0", "]">>, <<"[", "2", "]">> >>

---------------------------------------------------------------------------
(* Struct walker (structvalidator.StructValidator).                        *)

(* Go values the walker meets besides those of the validators: structs     *)
(* with their fields in declaration order, pointers (to is <<>> for nil),  *)
(* arrays, and maps with their entries in the order this iteration of the  *)
(* map yields them.                                                        *)
Field(name, exported, tag, val) == [name |-> name, exported |-> exported, tag |-> tag, val |-> val]
VStruct(fields) == [t |-> "struct", fields |-> fields]
VPtr(to) == [t |-> "ptr", to |-> to]
VArray(elems) == [t |-> "array", elems |-> elems]
VMap(entries) == [t |-> "map", entries |-> entries]

ValidateOpts(stopOnFirst, pathSep) == [StopOnFirst |-> stopOnFirst, PathSep |-> pathSep]

(* A nil *Validate.                                                        *)
NoEngine == <<>>

ApplyOpts(e, o) ==
    IF o.PathSep = ""
    THEN [o EXCEPT !.PathSep = IF e # NoEngine THEN e.pathSep ELSE "."]
    ELSE o

(* A pointer that is left as it is.                                        *)
derefPointerNot(v) == v

RECURSIVE derefPointer(_)
derefPointer(v) == IF v.t = "ptr" /\ v.to # <<>> THEN derefPointer(v.to[1]) ELSE v

fieldPathJoin(base, name, sep) ==
    IF base = <<>> THEN name
    ELSE IF Len(name) > 0 /\ name[1] = "[" THEN base \o name
    ELSE base \o <<IF sep = "" THEN "." ELSE sep>> \o name

(* A walk that stops at any failure, asked to or not.                      *)
StopNowAtAnyFailure(opts, failed) == failed

(* "if opts.StopOnFirst { return false }" after a failure.                 *)
StopNow(opts, failed) == failed /\ opts.StopOnFirst

(* The walk so far: the errors collected, the Engine with its cache, the   *)
(* paths of the fields validated, and whether the walk goes on.            *)
WalkState(errs, e, visited, cont) == [errs |-> errs, e |-> e, visited |-> visited, cont |-> cont]

(* The FieldErrors that a tagged field adds to errs: res is what FromRules *)
(* returned for the field's tag, err what the validator returned.          *)
fieldErrors(opts, fieldPath, res, err) ==
    IF res.err # "" THEN <<FieldError(fieldPath, CodeUnknown, res.err)>>
    ELSE IF err = Nil THEN <<>>
    ELSE IF IsErrors(err)
    THEN [k \in 1..Len(err.es) |->
             [err.es[k] EXCEPT !.Path = fieldPathJoin(fieldPath, @, opts.PathSep)]]
    ELSE <<FieldError(fieldPath, CodeUnknown, err.msg)>>

(* Lines 132-164 of walkStruct: a tagged field is compiled and validated.  *)
(* (A value written x \in {e} is e, computed once.)                        *)
validateField(opts, ft, fieldPath, ws) ==
    CHOOSE out \in
        { WalkState(ws.errs \o fieldErrors(opts, fieldPath, res, err), res.e,
                    Append(ws.visited, fieldPath),
                    ~StopNow(opts, res.err # "" \/ err # Nil)) :
            res \in {FromRules(ws.e, Split(ft.tag, ";"))},
            err \in {IF FromRules(ws.e, Split(ft.tag, ";")).err = ""
                     THEN Apply(FromRules(ws.e, Split(ft.tag, ";")).fn[1], ft.val).err
                     ELSE Nil} } : TRUE

RECURSIVE walkStruct(_, _, _, _, _)
RECURSIVE walkElems(_, _, _, _, _)

(* The loops over the elements of an untagged slice or array and over the  *)
(* entries of an untagged map: items[j] is the bracketed suffix and the    *)
(* value of one element.                                                   *)
walkElems(opts, items, fieldPath, j, ws) ==
    IF j > Len(items) THEN [ws EXCEPT !.cont = TRUE]
    ELSE IF derefPointer(items[j].v).t = "struct"
    THEN CHOOSE out \in
            { IF ~r.cont /\ opts.StopOnFirst THEN [r EXCEPT !.cont = FALSE]
              ELSE walkElems(opts, items, fieldPath, j + 1, r) :
                r \in {walkStruct(opts, derefPointer(items[j].v), fieldPath \o items[j].suffix, 1, ws)} } : TRUE
    ELSE walkElems(opts, items, fieldPath, j + 1, ws)

(* The body of walkStruct's loop for an exported field: a tagged field is  *)
(* validated, an untagged one is recursed into or skipped.                 *)
walkField(opts, ft, fieldPath, ws) ==
    IF ft.tag # <<>> THEN validateField(opts, ft, fieldPath, ws)
    ELSE CASE derefPointer(ft.val).t = "struct" ->
                CHOOSE out \in
                    { [sub EXCEPT !.cont = ~(~sub.cont /\ opts.StopOnFirst)] :
                        sub \in {walkStruct(opts, derefPointer(ft.val), fieldPath, 1, ws)} } : TRUE
           [] derefPointer(ft.val).t \in {"slice", "array"} ->
                walkElems(opts,
                    [j \in 1..Len(derefPointer(ft.val).elems) |->
                        [suffix |-> <<"[", ToString(j - 1), "]">>, v |-> derefPointer(ft.val).elems[j]]],
                    fieldPath, 1, ws)
           [] derefPointer(ft.val).t = "map" ->
                walkElems(opts,
                    [j \in 1..Len(derefPointer(ft.val).entries) |->
                        [suffix |-> <<"[", derefPointer(ft.val).entries[j].k, "]">>,
                         v |-> derefPointer(ft.val).entries[j].v]],
                    fieldPath, 1, ws)
           [] OTHER -> [ws EXCEPT !.cont = TRUE]

(* walkStruct from field i (1-based) of struct v at path.                  *)
walkStruct(opts, v, path, i, ws) ==
    IF i > Len(v.fields) THEN [ws EXCEPT !.cont = TRUE]
    ELSE IF ~v.fields[i].exported THEN walkStruct(opts, v, path, i + 1, ws)
    ELSE CHOOSE out \in
            { IF ~r.cont THEN r ELSE walkStruct(opts, v, path, i + 1, r) :
                r \in {walkField(opts, v.fields[i],
                                 fieldPathJoin(path, <<v.fields[i].name>>, opts.PathSep), ws)} } : TRUE

(* ValidateStructWithOpts(s, opts) on Engine e: the error returned, the    *)
(* Engine after, and the paths of the fields that were validated.          *)
ValidateStructWithOpts(e, s, o) ==
    IF (IF s.t = "ptr" /\ s.to # <<>> THEN s.to[1] ELSE s).t # "struct"
    THEN [err |-> PlainError("ValidateStruct: expected struct"), e |-> e, visited |-> <<>>]
    ELSE CHOOSE out \in
            { [err |-> IF Len(ws.errs) > 0 THEN Errors(ws.errs) ELSE Nil,
               e |-> ws.e, visited |-> ws.visited] :
                ws \in {walkStruct(ApplyOpts(e, o),
                                   IF s.t = "ptr" /\ s.to # <<>> THEN s.to[1] ELSE s,
                                   <<>>, 1, WalkState(<<>>, e, <<>>, TRUE))} } : TRUE

---------------------------------------------------------------------------
(* ValidateStruct calls.  A behaviour is one call on an Engine that was    *)
(* just configured.                                                        *)

tagMin3Max5 == <<"string", ";", "min=", "3", ";", "max=", "5">>
tagMin2 == <<"string", ";", "min=", "2">>
tagIntMin == <<"int", ";", "min=", "1">>
tagForEach == <<"slice", ";", "foreach=", "(", "string", ";", "min=", "2", ")">>

Str(cs) == VStr(cs)

User(name, age) ==
    VStruct(<<Field("Name", TRUE, tagMin3Max5, Str(name)),
              Field("Age", TRUE, tagIntMin, VInt("int", age))>>)

Line(code) == VStruct(<<Field("Code", TRUE, tagMin2, Str(code))>>)

Structs ==
    { User(<<"a">>, 0), User(<<"a", "b", "c">>, 0), User(<<"a", "b", "c">>, 3),
      VPtr(<<User(<<"a">>, 3)>>), VPtr(<<>>), VInt("int", 3),
      (* R{N N}, N{X string `validate:"string;min=2"`}, and a field after N *)
      VStruct(<<Field("N", TRUE, <<>>, VStruct(<<Field("X", TRUE, tagMin2, Str(<<>>))>>)),
                Field("Age", TRUE, tagIntMin, VInt("int", 0))>>),
      (* Order{Lines []Line} *)
      VStruct(<<Field("Lines", TRUE, <<>>, VSlice(<<Line(<<"o", "k">>), Line(<<>>)>>))>>),
      VStruct(<<Field("Lines", TRUE, <<>>, VSlice(<<Line(<<>>), VPtr(<<Line(<<"a">>)>>), VPtr(<<>>)>>)),
                Field("Arr", TRUE, <<>>, VArray(<<Line(<<"a">>)>>))>>),
      (* Bag{M map[string]Item}, in the two orders a map may be ranged over *)
      VStruct(<<Field("M", TRUE, <<>>, VMap(<<[k |-> "k1", v |-> Line(<<>>)], [k |-> "k2", v |-> Line(<<"a">>)]>>))>>),
      VStruct(<<Field("M", TRUE, <<>>, VMap(<<[k |-> "k2", v |-> Line(<<"a">>)], [k |-> "k1", v |-> Line(<<>>)]>>))>>),
      (* a forEach field with two failing elements, then another field *)
      VStruct(<<Field("Tags", TRUE, tagForEach, Strs(<< <<"a">>, <<"b">> >>)),
                Field("Name", TRUE, tagMin2, Str(<<"a">>))>>),
      (* unexported fields, untagged scalars, collections of scalars, pointers *)
      VStruct(<<Field("secret", FALSE, tagMin2, Str(<<>>)),
                Field("inner", FALSE, <<>>, Line(<<>>)),
                Field("Count", TRUE, <<>>, VInt("int", 0)),
                Field("Nums", TRUE, <<>>, VSlice(<<VInt("int", 0)>>)),
                Field("Ptr", TRUE, <<>>, VPtr(<<VPtr(<<Line(<<>>)>>)>>)),
                Field("NilPtr", TRUE, <<>>, VPtr(<<>>)),
                Field("Code", TRUE, tagMin2, Str(<<"o", "k">>))>>),
      (* a tag that does not parse, an unknown plugin kind, a pointer field *)
      VStruct(<<Field("A", TRUE, <<"int", ";", "f", "o", "o">>, VInt("int", 1)),
                Field("B", TRUE, <<"string", ";", "nope">>, Str(<<"a">>)),
                Field("C", TRUE, tagMin2, VPtr(<<Str(<<"a", "b">>)>>))>>),
      (* three levels, a failure at the bottom and fields after it *)
      VStruct(<<Field("A", TRUE, <<>>,
                      VStruct(<<Field("B", TRUE, <<>>, VStruct(<<Field("X", TRUE, tagMin2, Str(<<>>)),
                                                                 Field("Y", TRUE, tagMin2, Str(<<>>))>>)),
                                Field("Z", TRUE, tagIntMin, VInt("int", 0))>>)),
                Field("Name", TRUE, tagMin2, Str(<<"o", "k">>))>>) }

WalkEngines == {NewEngine, PathSeparator(NewEngine, ":"), WithTranslator(NewEngine, "keyEcho")}

WalkOpts == {ValidateOpts(FALSE, ""), ValidateOpts(TRUE, ""), ValidateOpts(FALSE, "/")}

InitWalk ==
    /\ engine \in WalkEngines
    /\ walkIn = Idle /\ walkOut = Idle
    /\ calls = Idle /\ procs = Idle /\ evalIn = Idle /\ evalOut = Idle /\ heap = Idle
    /\ pureIn = Idle /\ pureOut = Idle

ValidateStruct ==
    /\ walkIn = Idle
    /\ \E s \in Structs : \E o \in WalkOpts :
          \E res \in {ValidateStructWithOpts(engine, s, o)} :
              /\ walkIn' = [s |-> s, opts |-> ApplyOpts(engine, o)]
              /\ walkOut' = [err |-> res.err, visited |-> res.visited, again |-> Idle]
              /\ engine' = res.e
    /\ UNCHANGED <<calls, procs, evalIn, evalOut, heap, pureIn, pureOut>>

RECURSIVE Reranged(_)

(* The same Go value with every map ranged over in the opposite order:     *)
(* reflect.Value.MapKeys returns the keys in an unspecified order, which   *)
(* is not a property of the value.                                         *)
Reranged(v) ==
    CASE v.t = "struct" -> VStruct([i \in 1..Len(v.fields) |-> [v.fields[i] EXCEPT !.val = Reranged(@)]])
      [] v.t = "ptr" -> VPtr([i \in 1..Len(v.to) |-> Reranged(v.to[i])])
      [] v.t = "array" -> VArray([i \in 1..Len(v.elems) |-> Reranged(v.elems[i])])
      [] v.t = "slice" -> VSlice([i \in 1..Len(v.elems) |-> Reranged(v.elems[i])])
      [] v.t = "map" ->
            VMap([i \in 1..Len(v.entries) |->
                    [k |-> v.entries[Len(v.entries) + 1 - i].k,
                     v |-> Reranged(v.entries[Len(v.entries) + 1 - i].v)]])
      [] OTHER -> v

(* A second ValidateStructWithOpts call on the same Engine with the same   *)
(* options and an equal struct value, whose maps are ranged over in the    *)
(* same order as before or in another.                                     *)
ValidateStructAgain ==
    /\ walkIn # Idle /\ walkOut.again = Idle
    /\ \E s2 \in {walkIn.s, Reranged(walkIn.s)} :
          \E res \in {ValidateStructWithOpts(engine, s2, walkIn.opts)} :
              /\ walkOut' = [walkOut EXCEPT !.again = <<res.err>>]
              /\ engine' = res.e
    /\ UNCHANGED <<walkIn, calls, procs, evalIn, evalOut, heap, pureIn, pureOut>>

NextWalk == ValidateStruct \/ ValidateStructAgain

SpecWalk == InitWalk /\ [][NextWalk]_vars

---------------------------------------------------------------------------
(* What a walk has to cover, stated without the walker.                    *)

RECURSIVE PointsTo(_)
PointsTo(v) == IF v.t = "ptr" /\ v.to # <<>> THEN PointsTo(v.to[1]) ELSE v

RECURSIVE TaggedFields(_, _, _)

(* The tagged exported fields under one field at path fp.                  *)
TaggedUnder(f, fp, sep) ==
    IF ~f.exported THEN <<>>
    ELSE IF f.tag # <<>> THEN <<[path |-> fp, tag |-> f.tag, val |-> f.val]>>
    ELSE CASE PointsTo(f.val).t = "struct" -> TaggedFields(PointsTo(f.val), fp, sep)
           [] PointsTo(f.val).t \in {"slice", "array"} ->
                ConcatAll([j \in 1..Len(PointsTo(f.val).elems) |->
                    IF PointsTo(PointsTo(f.val).elems[j]).t = "struct"
                    THEN TaggedFields(PointsTo(PointsTo(f.val).elems[j]),
                                      fp \o <<"[", ToString(j - 1), "]">>, sep)
                    ELSE <<>>])
           [] PointsTo(f.val).t = "map" ->
                ConcatAll([j \in 1..Len(PointsTo(f.val).entries) |->
                    IF PointsTo(PointsTo(f.val).entries[j].v).t = "struct"
                    THEN TaggedFields(PointsTo(PointsTo(f.val).entries[j].v),
                                      fp \o <<"[", PointsTo(f.val).entries[j].k, "]">>, sep)
                    ELSE <<>>])
           [] OTHER -> <<>>

(* The tagged exported fields reachable from struct v at path, depth       *)
(* first in field-declaration order, each with its path: the field names   *)
(* joined by sep, bracketed indices and keys appended directly.            *)
TaggedFields(v, path, sep) ==
    ConcatAll([i \in 1..Len(v.fields) |->
        TaggedUnder(v.fields[i],
                    IF path = <<>> THEN <<v.fields[i].name>>
                    ELSE path \o <<sep, v.fields[i].name>>,
                    sep)])

(* The codes with which a tagged field fails, none when it passes: the     *)
(* codes of its validator's error, and unknown for a tag that does not     *)
(* compile or an error that is no Errors collection.                       *)
FieldCodes(tr, f) ==
    LET ast == ParseTag(f.tag)
        err == Compile(tr, ast.rules, f.val).err
    IN  IF ast.err # "" THEN <<CodeUnknown>>
        ELSE IF err = Nil THEN <<>>
        ELSE IF IsErrors(err) THEN CodesOf(err)
        ELSE <<CodeUnknown>>

(* The failures a full walk has to return: for every field in order, its   *)
(* path and each of its codes.                                             *)
Failures(tr, fields) ==
    ConcatAll([i \in 1..Len(fields) |->
        [k \in 1..Len(FieldCodes(tr, fields[i])) |->
            [path |-> fields[i].path, code |-> FieldCodes(tr, fields[i])[k]]]])

PointsToRoot ==
    IF walkIn.s.t = "ptr" /\ walkIn.s.to # <<>> THEN walkIn.s.to[1] ELSE walkIn.s

IsPrefix(p, q) == Len(p) <= Len(q) /\ SubSeq(q, 1, Len(p)) = p

Walked == walkIn # Idle /\ PointsToRoot.t = "struct"

WalkFields == TaggedFields(PointsToRoot, <<>>, walkIn.opts.PathSep)

WalkFailures == Failures(engine.translator, WalkFields)

ReturnedErrs == IF IsErrors(walkOut.err) THEN walkOut.err.es ELSE <<>>

(* C7: with StopOnFirst=false the walk validates every exported tagged     *)
(* field and every recursively reached descendant and returns all their    *)
(* failures in depth-first field-declaration order; it returns nil if and  *)
(* only if nothing failed; a failing field never keeps a later field from  *)
(* being validated.                                                        *)
C7_WalkAggregates ==
    Walked /\ ~walkIn.opts.StopOnFirst =>
        /\ Len(walkOut.visited) = Len(WalkFields)
        /\ Len(ReturnedErrs) = Len(WalkFailures)
        /\ \A k \in 1..Len(WalkFailures) :
              /\ ReturnedErrs[k].Code = WalkFailures[k].code
              /\ IsPrefix(WalkFailures[k].path, ReturnedErrs[k].Path)
        /\ (walkOut.err = Nil) <=> (WalkFailures = <<>>)

(* C7 witness: a full walk over three levels returned three failures, the  *)
(* first from the deepest struct and the last from a field declared after  *)
(* the struct that failed.                                                 *)
C7_Witness ==
    /\ Walked /\ ~walkIn.opts.StopOnFirst
    /\ Len(ReturnedErrs) = 3
    /\ Len(WalkFields) = 4
    /\ [k \in 1..3 |-> ReturnedErrs[k].Code] = <<CodeStringMin, CodeStringMin, CodeIntMin>>

(* The first field, in walk order, that fails.                             *)
FirstFailingField ==
    CHOOSE i \in 1..Len(WalkFields) :
        /\ FieldCodes(engine.translator, WalkFields[i]) # <<>>
        /\ \A j \in 1..(i - 1) : FieldCodes(engine.translator, WalkFields[j]) = <<>>

(* C8 as stated: with StopOnFirst=true the walk stops at the first failure *)
(* and returns exactly that one FieldError, whatever the rule chain of the *)
(* failing field; no later field is validated.                             *)
C8_StopOnFirstOne ==
    Walked /\ walkIn.opts.StopOnFirst /\ WalkFailures # <<>> =>
        /\ Len(ReturnedErrs) = 1
        /\ Len(walkOut.visited) = FirstFailingField

(* C9 as stated: the Path of every FieldError of a walk is the path of the *)
(* failing tagged field, with at most bracketed index suffixes after it    *)
(* and nothing else added.                                                 *)
C9_PathIsFieldPath ==
    Walked =>
        \A k \in 1..Len(ReturnedErrs) :
            \E i \in 1..Len(WalkFields) :
                /\ IsPrefix(WalkFields[i].path, ReturnedErrs[k].Path)
                /\ \/ Len(ReturnedErrs[k].Path) = Len(WalkFields[i].path)
                   \/ /\ ReturnedErrs[k].Path[Len(WalkFields[i].path) + 1] = "["
                      /\ ReturnedErrs[k].Path[Len(ReturnedErrs[k].Path)] = "]"

(* C10: the walker recurses through an exported untagged field when the    *)
(* dereferenced field is a struct, a slice or array of structs, or a map   *)
(* of structs, with child paths Field, Field[i], Field[key]; an untagged    *)
(* field of any other shape is skipped without error; an unexported field  *)
(* is never validated or recursed into.  So a full walk validates exactly  *)
(* the fields so reached, at exactly those paths.                          *)
C10_UntaggedRecursion ==
    Walked /\ ~walkIn.opts.StopOnFirst =>
        walkOut.visited = [i \in 1..Len(WalkFields) |-> WalkFields[i].path]

(* C10 witness: a struct with unexported fields, untagged scalars, a slice *)
(* of scalars, a nil pointer and a pointer to a pointer to a struct: the   *)
(* walk validated the field behind the pointers and the last field only,   *)
(* and reported the one failure.                                           *)
C10_Witness ==
    /\ Walked /\ ~walkIn.opts.StopOnFirst
    /\ Len(PointsToRoot.fields) = 7
    /\ Len(walkOut.visited) = 2
    /\ walkOut.visited[1][1] = "Ptr" /\ walkOut.visited[2] = <<"Code">>
    /\ Len(ReturnedErrs) = 1

---------------------------------------------------------------------------
(* Engines derived from one another (Copy, WithCustomRule, WithTranslator, *)
(* PathSeparator).  heap.tables are the custom-rule map objects and        *)
(* heap.engines the Engine objects made so far, each with the index of the *)
(* map object its customRules field refers to: WithTranslator and          *)
(* PathSeparator hand the receiver's map object on, Copy and               *)
(* WithCustomRule make a map of their own.                                 *)

MaxEngines == 3

(* m[name] = rule on a map value.                                          *)
MapPut(m, name, rule) == [k \in DOMAIN m \cup {name} |-> IF k = name THEN rule ELSE m[k]]

(* Engine.Copy(): the Engine returned (the receiver is not nil here).      *)
Copy(e) ==
    [customRules |-> e.customRules, translator |-> e.translator, pathSep |-> e.pathSep,
     compiled |-> <<>>, next |-> 1]

(* Engine.WithCustomRule(name, rule): the Engine returned.                 *)
WithCustomRule(e, name, rule) ==
    [customRules |-> MapPut(e.customRules, name, rule), translator |-> e.translator,
     pathSep |-> e.pathSep, compiled |-> <<>>, next |-> 1]

(* Engine i of the heap as an Engine value.                                *)
EngineAt(h, i) ==
    [customRules |-> h.tables[h.engines[i].table],
     translator |-> h.engines[i].translator, pathSep |-> h.engines[i].pathSep,
     compiled |-> h.engines[i].compiled, next |-> h.engines[i].next]

(* Closures compiled by different Engines are different objects: Engine k  *)
(* numbers the validators it compiles from IdBase(k).                      *)
IdStride == MaxCalls + 1
IdBase(k) == (k - 1) * IdStride + 1

(* The heap object of a new Engine e whose customRules is map object t.    *)
EngineObject(e, t, k) ==
    [table |-> t, translator |-> e.translator, pathSep |-> e.pathSep,
     compiled |-> e.compiled, next |-> IdBase(k)]

(* A new Engine that refers to the receiver's map object.                  *)
AllocSharing(h, i, e) ==
    [tables |-> h.tables,
     engines |-> Append(h.engines, EngineObject(e, h.engines[i].table, Len(h.engines) + 1))]

(* A rule registered in the receiver's own map, which the new Engine then  *)
(* refers to.                                                              *)
AllocWritingReceiver(h, i, e) ==
    [tables |-> [h.tables EXCEPT ![h.engines[i].table] = e.customRules],
     engines |-> Append(h.engines, EngineObject(e, h.engines[i].table, Len(h.engines) + 1))]

(* A new Engine with a map object of its own (make and fill).              *)
AllocCopying(h, i, e) ==
    [tables |-> Append(h.tables, e.customRules),
     engines |-> Append(h.engines, EngineObject(e, Len(h.tables) + 1, Len(h.engines) + 1))]

(* The heap after a FromRules or CompileRules call on engine i left it e.  *)
HeapAfterCall(h, i, e) ==
    [h EXCEPT !.engines[i].compiled = e.compiled, !.engines[i].next = e.next]

EngineTranslators == {"keyEcho"}
EngineSeps == {"/"}
EngineRuleNames == {"other"}
EngineTables == {[myRule |-> customFn]}

EngineTokenLists ==
    { << <<"string">>, <<"min=", "3">> >>,
      << <<"myRule">> >> }

EngineRuleLists ==
    { <<NewRule(KString, NoArgs), NewRule(KMinLength, [n |-> AInt64(3)])>> }

InitEngines ==
    /\ heap \in {[tables |-> <<c>>, engines |-> <<EngineObject(NewEngineWithCustomRules(c), 1, 1)>>] :
                    c \in EngineTables}
    /\ calls = <<>>
    /\ engine = Idle /\ procs = Idle /\ evalIn = Idle /\ evalOut = Idle
    /\ walkIn = Idle /\ walkOut = Idle
    /\ pureIn = Idle /\ pureOut = Idle

Engines == 1..Len(heap.engines)

DoCopy ==
    /\ Len(heap.engines) < MaxEngines
    /\ \E i \in Engines : heap' = AllocCopying(heap, i, Copy(EngineAt(heap, i)))
    /\ UNCHANGED <<engine, calls, procs, evalIn, evalOut, walkIn, walkOut, pureIn, pureOut>>

DoWithCustomRule ==
    /\ Len(heap.engines) < MaxEngines
    /\ \E i \in Engines : \E name \in EngineRuleNames :
          heap' = AllocCopying(heap, i, WithCustomRule(EngineAt(heap, i), name, fnA))
    /\ UNCHANGED <<engine, calls, procs, evalIn, evalOut, walkIn, walkOut, pureIn, pureOut>>

DoWithTranslator ==
    /\ Len(heap.engines) < MaxEngines
    /\ \E i \in Engines : \E t \in EngineTranslators :
          heap' = AllocSharing(heap, i, WithTranslator(EngineAt(heap, i), t))
    /\ UNCHANGED <<engine, calls, procs, evalIn, evalOut, walkIn, walkOut, pureIn, pureOut>>

DoPathSeparator ==
    /\ Len(heap.engines) < MaxEngines
    /\ \E i \in Engines : \E sep \in EngineSeps :
          heap' = AllocSharing(heap, i, PathSeparator(EngineAt(heap, i), sep))
    /\ UNCHANGED <<engine, calls, procs, evalIn, evalOut, walkIn, walkOut, pureIn, pureOut>>

(* A finished call on engine i of the heap: what it returned, and whether  *)
(* it compiled the validator it returned itself.                           *)
EngineCall(i, op, res, e) ==
    [on |-> i, op |-> op, fn |-> res.fn, err |-> res.err,
     compiledHere |-> res.fn # <<>> /\ res.fn[1].id = e.next /\ res.e.next # e.next]

(* The validators the Engines have compiled so far, all together.          *)
RECURSIVE Compiles(_, _)
Compiles(h, k) ==
    IF k = 0 THEN 0 ELSE (h.engines[k].next - IdBase(k)) + Compiles(h, k - 1)

(* In this specification calls holds the last finished call only.          *)
DoFromRules ==
    /\ Compiles(heap, Len(heap.engines)) < MaxCalls
    /\ \E i \in Engines : \E tokens \in EngineTokenLists :
          \E res \in {FromRules(EngineAt(heap, i), tokens)} :
              /\ heap' = HeapAfterCall(heap, i, res.e)
              /\ calls' = <<EngineCall(i, "FromRules", res, EngineAt(heap, i))>>
    /\ UNCHANGED <<engine, procs, evalIn, evalOut, walkIn, walkOut, pureIn, pureOut>>

DoCompileRules ==
    /\ Compiles(heap, Len(heap.engines)) < MaxCalls
    /\ \E i \in Engines : \E rules \in EngineRuleLists :
          \E res \in {CompileRules(EngineAt(heap, i), rules)} :
              /\ heap' = HeapAfterCall(heap, i, res.e)
              /\ calls' = <<EngineCall(i, "CompileRules", res, EngineAt(heap, i))>>
    /\ UNCHANGED <<engine, procs, evalIn, evalOut, walkIn, walkOut, pureIn, pureOut>>

NextEngines ==
    \/ DoCopy
    \/ DoWithCustomRule
    \/ DoWithTranslator
    \/ DoPathSeparator
    \/ DoFromRules
    \/ DoCompileRules

SpecEngines == InitEngines /\ [][NextEngines]_vars

(* A step that made a new Engine.                                          *)
Derives == Len(heap'.engines) = Len(heap.engines) + 1

NewStartsEmpty == Derives => heap'.engines[Len(heap'.engines)].compiled = <<>>

(* The Engine that compiled validator fn: the one in whose range of        *)
(* numbers fn's number lies; 0 for a function that no Engine compiled (a   *)
(* custom rule).                                                           *)
CompiledBy(fn) ==
    IF \E k \in 1..MaxEngines : fn.id \in IdBase(k)..(IdBase(k + 1) - 1)
    THEN CHOOSE k \in 1..MaxEngines : fn.id \in IdBase(k)..(IdBase(k + 1) - 1)
    ELSE 0

(* A call on an Engine returns no validator that another Engine compiled.  *)
NoLeak ==
    \A a \in 1..Len(calls) :
        calls[a].fn # <<>> => CompiledBy(calls[a].fn[1]) \in {0, calls[a].on}

(* No cache holds a validator that another Engine compiled.                *)
CachesApart ==
    \A i \in Engines : \A k \in DOMAIN heap.engines[i].compiled :
        CompiledBy(heap.engines[i].compiled[k]) = i

(* C11: every Engine returned by WithTranslator, WithCustomRule,           *)
(* PathSeparator or Copy starts with an empty compilation cache, and no    *)
(* validator compiled through one Engine is ever returned by a FromRules   *)
(* or CompileRules call on a different Engine, or held in its cache.       *)
C11_CachesIsolated == [](NoLeak /\ CachesApart) /\ [][NewStartsEmpty]_vars

(* C11 witness: an Engine compiled and cached a tag, an Engine was derived *)
(* from it afterwards (it numbers its first validator from its own base),  *)
(* and the same tag on the derived Engine was compiled anew: two           *)
(* instances of the same rules, one in each cache.                         *)
C11_Witness ==
    /\ Len(heap.engines) >= 2 /\ calls # <<>>
    /\ calls[1].on = 2 /\ calls[1].op = "FromRules" /\ calls[1].compiledHere
    /\ heap.engines[2].table = heap.engines[1].table
    /\ \E k \in DOMAIN heap.engines[1].compiled :
          /\ k \in DOMAIN heap.engines[2].compiled
          /\ heap.engines[2].compiled[k] = calls[1].fn[1]
          /\ heap.engines[1].compiled[k] # calls[1].fn[1]
          /\ heap.engines[1].compiled[k].rules = calls[1].fn[1].rules
          /\ CompiledBy(heap.engines[1].compiled[k]) = 1

(* The receiver and every other Engine made before a deriving step are,    *)
(* after the step, what they were before it.                               *)
ReceiverKept ==
    Derives => \A i \in 1..Len(heap.engines) : EngineAt(heap', i) = EngineAt(heap, i)

(* C12: WithTranslator, WithCustomRule and PathSeparator (and Copy) return *)
(* a new Engine and leave the receiver as it was: its translator, its path *)
(* separator, the contents of its custom-rule table and the entries of its *)
(* cache are the same after the call, in every order in which callers make *)
(* such calls and calls of FromRules and CompileRules.                     *)
C12_ReceiverUnchanged == [][ReceiverKept]_vars

(* C12 witness: an Engine with a cache entry and a custom rule has had two *)
(* Engines derived from it, one sharing its table and one with a further   *)
(* rule, and still has its own table, configuration and entry.             *)
C12_Witness ==
    /\ Len(heap.engines) = 3
    /\ DOMAIN heap.engines[1].compiled # {}
    /\ heap.engines[2].table = heap.engines[1].table
    /\ heap.engines[3].table # heap.engines[1].table
    /\ DOMAIN heap.tables[heap.engines[3].table] = {"myRule", "other"}
    /\ DOMAIN EngineAt(heap, 1).customRules = {"myRule"}
    /\ EngineAt(heap, 1).translator = "nil" /\ EngineAt(heap, 1).pathSep = "."

---------------------------------------------------------------------------
(* Canonical serialization.  A behaviour is one comparison: a rule list    *)
(* and a rule list that differs from it in the ways a canonical form has   *)
(* to ignore are serialized, each under its own order of map iteration.    *)

Reverse(s) == [i \in 1..Len(s) |-> s[Len(s) + 1 - i]]

(* A difference between two rule lists: the []string arguments in another  *)
(* element order, the integer arguments in another Go type.                *)
Variant(reorder, retype) == [reorder |-> reorder, retype |-> retype]
Variants == {Variant(r, t) : r \in BOOLEAN, t \in {"", "int", "int64", "int8", "uint32"}}

RECURSIVE VariantRules(_, _)
RECURSIVE VariantArg(_, _)

VariantArg(a, v) ==
    CASE a.t = "strings" -> IF v.reorder THEN AStrs(Reverse(a.ss)) ELSE a
      [] a.t \in IntTypes -> IF v.retype # "" THEN [a EXCEPT !.t = v.retype] ELSE a
      [] a.t = "rules" -> ARules(VariantRules(a.rs, v))
      [] a.t = "map" -> AMap([k \in DOMAIN a.m |-> VariantArg(a.m[k], v)])
      [] OTHER -> a

VariantRules(rules, v) ==
    [i \in 1..Len(rules) |->
        [rules[i] EXCEPT !.Args = [k \in DOMAIN rules[i].Args |-> VariantArg(rules[i].Args[k], v)]]]

(* Orders in which a range loop may yield the keys of a map.               *)
KeyOrders ==
    { ArgKeyOrder, Reverse(ArgKeyOrder),
      <<"values", "n", "rules", "m", "validator", "pattern">> }

oneOfAB == NewRule(KOneOf, [values |-> AStrs(<< <<"b">>, <<"a", "b">>, <<"a">> >>)])
minLen3 == NewRule(KMinLength, [n |-> AInt(3)])

SerializeRuleLists ==
    { <<NewRule(KString, NoArgs), minLen3>>,
      <<NewRule(KString, NoArgs), oneOfAB>>,
      <<NewRule(KString, NoArgs), NewRule(KMinLength, [n |-> AInt64(3)]), NewRule(KMaxLength, [n |-> AInt(5)])>>,
      <<NewRule("custom", [values |-> AStrs(<< <<"c">>, <<"a">> >>), n |-> AInt(1), pattern |-> AStr(<<"a", ".">>)])>>,
      <<NewRule("custom", [m |-> AMap([values |-> AStrs(<< <<"b">>, <<"a">> >>), n |-> AInt64(2)]),
                           n |-> AInt(7)])>>,
      <<NewRule(KSlice, NoArgs), NewRule(KForEach, [rules |-> ARules(<<NewRule(KString, NoArgs), oneOfAB, minLen3>>)])>>,
      <<NewRule(KSlice, NoArgs),
        NewRule(KForEach, [rules |-> ARules(<<NewRule(KSlice, NoArgs),
                                              NewRule(KForEach, [rules |-> ARules(<<oneOfAB>>), n |-> AInt(2)])>>)])>>,
      <<NewRule(KInt, NoArgs), NewRule(KMinInt, [n |-> AInt64(1)]), NewRule(KMaxInt, [n |-> AInt64(5)])>>,
      <<NewRule(KSlice, NoArgs), forEachFn(fnA)>>,
      <<>> }

InitSerialize ==
    /\ pureIn = Idle /\ pureOut = Idle
    /\ engine = Idle /\ calls = Idle /\ procs = Idle /\ evalIn = Idle /\ evalOut = Idle
    /\ walkIn = Idle /\ walkOut = Idle /\ heap = Idle

(* Values on which two compiled validators are compared.                   *)
ProbeValues ==
    <<VNil, VStr(<<"a">>), VStr(<<"a", "b", "c">>), VInt("int", 0), VInt("int64", 3),
      Strs(<< <<"a">>, <<"a", "b", "c">> >>)>>

(* types.NewCompiler(nil).Compile(rules) called on each of ProbeValues.    *)
Outcomes(rules) == [i \in 1..Len(ProbeValues) |-> Compile("nil", rules, ProbeValues[i]).err]

(* SerializeRules(rules) and SerializeRules(other), and SerializeRules     *)
(* (rules) once more; then both lists are compiled and the validators are  *)
(* called.                                                                 *)
Serialize ==
    /\ pureIn = Idle
    /\ \E rules \in SerializeRuleLists : \E v \in Variants :
       \E o1 \in KeyOrders : \E o2 \in KeyOrders :
          /\ pureIn' = [op |-> "SerializeRules", rules |-> rules, other |-> VariantRules(rules, v),
                        orders |-> <<o1, o2>>]
          /\ pureOut' = [first |-> SerializeRulesRanged(rules, o1),
                         other |-> SerializeRulesRanged(VariantRules(rules, v), o2),
                         again |-> SerializeRulesRanged(rules, o2),
                         firstOn |-> Outcomes(rules),
                         otherOn |-> Outcomes(VariantRules(rules, v))]
    /\ UNCHANGED <<engine, calls, procs, evalIn, evalOut, walkIn, walkOut, heap>>

NextSerialize == Serialize

SpecSerialize == InitSerialize /\ [][NextSerialize]_vars

Serialized == pureIn # Idle /\ pureIn.op = "SerializeRules"

(* C13: SerializeRules is deterministic and canonical: rule lists that     *)
(* differ only in the order in which a map yields its keys, in the order   *)
(* of the elements of a []string argument, or in the integer type of a     *)
(* numeric argument, at the top level or inside nested forEach rule lists, *)
(* serialize to the same string, and serializing a rule list twice gives   *)
(* the same string.                                                        *)
C13_SerializeCanonical ==
    Serialized => pureOut.other = pureOut.first /\ pureOut.again = pureOut.first

(* C13 witness: a forEach rule inside a forEach rule carries a []string    *)
(* and an integer; the other list has the strings in another order and the *)
(* integer in another type, the maps were ranged over in different orders, *)
(* and the two strings are the same, with the values sorted.               *)
C13_Witness ==
    /\ Serialized
    /\ pureIn.other # pureIn.rules
    /\ pureIn.orders[1] # pureIn.orders[2]
    /\ Len(pureIn.rules) = 2 /\ pureIn.rules[2].Kind = KForEach
    /\ pureIn.rules[2].Args["rules"].rs[2].Kind = KForEach
    /\ pureIn.other[2].Args["rules"].rs[2].Args["n"] = [t |-> "uint32", n |-> 2]
    /\ pureIn.other[2].Args["rules"].rs[2].Args["rules"].rs[1].Args["values"].ss
          = << <<"a">>, <<"a", "b">>, <<"b">> >>
    /\ pureOut.other = pureOut.first
    /\ pureOut.first = SerializeRules(pureIn.rules)

---------------------------------------------------------------------------
(* Rules of an unknown kind.                                               *)

(* A kind with no plugin compiler in the registry that is not built in.    *)
IsUnknownKind(kind) == kind \notin BuiltinKinds \cup globalRegistry

(* What an invocation of the validator compiled from rules returned, given *)
(* the rules it evaluated: every rule of an unknown kind that was reached  *)
(* made the invocation return the "unknown rule kind" error.               *)
UnknownReported(rules, res) ==
    \A j \in 1..Len(res.evaluated) :
        IsUnknownKind(rules[res.evaluated[j]].Kind)
            => /\ res.err = PlainError("unknown rule kind: " \o rules[res.evaluated[j]].Kind)
               /\ res.err # Nil
               /\ j = Len(res.evaluated)

(* The rule list a tag validator was compiled from.                        *)
TagRules == ParseTag(TagOf(evalIn.chain[1])).rules

(* C14: Compile returns a validator for every rule list, and a rule whose  *)
(* kind is neither built in nor registered makes every invocation that     *)
(* reaches it return the error "unknown rule kind: <kind>"; it never       *)
(* passes.                                                                 *)
C14_UnknownKindReported ==
    evalIn # Idle =>
        /\ UnknownReported(evalIn.rules, evalOut.builder)
        /\ Compared => UnknownReported(TagRules, evalOut.tag)

(* C14 witness: a value passes the first two rules of a list, reaches a    *)
(* third rule of an unknown kind, and the invocation returns the error.    *)
C14_Witness ==
    /\ Invoked
    /\ Len(evalIn.rules) = 3
    /\ IsUnknownKind(evalIn.rules[3].Kind)
    /\ evalOut.builder.evaluated = <<1, 2, 3>>
    /\ evalOut.builder.err = PlainError("unknown rule kind: nope")

---------------------------------------------------------------------------
(* Tags with a regex pattern that does not compile.                        *)

(* The invocation compared a chain String().Regex(pattern) with its tag    *)
(* string;regex=pattern, for a pattern with unbalanced parentheses, which  *)
(* regexp.Compile rejects.                                                 *)
InvalidRegexTag ==
    /\ evalIn # Idle /\ evalIn.op = "compare"
    /\ evalIn.chain[1].base = "string"
    /\ Len(evalIn.chain[1].steps) = 1
    /\ evalIn.chain[1].steps[1].m = "Regex"
    /\ ~parensBalanced(evalIn.chain[1].steps[1].pat, 0)

(* C15: a tag whose regex pattern is invalid parses and compiles without   *)
(* error, and the validator returns a failure with code                    *)
(* string.regex.invalidPattern for every string input.                     *)
C15_InvalidRegexDeferred ==
    InvalidRegexTag =>
        /\ evalOut.tagErr = ""
        /\ evalIn.v.t = "string" => CodesOf(evalOut.tag.err) = <<CodeStringRegexInvalidPattern>>

(* C15 witness: the tag string;regex=(a gave a validator, which evaluated  *)
(* the string rule and the regex rule on a string and returned the code.   *)
C15_Witness ==
    /\ InvalidRegexTag
    /\ TagOf(evalIn.chain[1]) = <<"string", ";", "regex=", "(", "a">>
    /\ evalOut.tagErr = ""
    /\ evalIn.v = VStr(<<"a", "b">>)
    /\ evalOut.tag.evaluated = <<1, 2>>
    /\ CodesOf(evalOut.tag.err) = <<CodeStringRegexInvalidPattern>>

---------------------------------------------------------------------------
(* The tag parser on its own.  A behaviour is one ParseTag call on a tag   *)
(* made of a base and segments joined by semicolons.                       *)

MaxSegments == 2

ParseBases == {<<"string">>, <<"int">>, <<"int64">>, <<"slice">>, <<"bool">>, <<"float">>, <<>>}

ParseSegments ==
    { <<>>, <<" ">>,
      <<"min=", "1">>, <<"max=", "5">>, <<"min=", "x">>, <<"length=", "3">>, <<"len=", "5">>,
      <<"minRunes=", "2">>, <<"maxRunes=", "2">>,
      <<"regex=", "a", ".", "c">>, <<"regex=", "(">>,
      <<"oneof=", "a", ",", "b">>, <<"oneof=", "a", " ", "b">>,
      <<"ulid">>, <<"nope">>,
      <<"foreach=", "(", "string", ";", "min=", "2", ")">>,
      <<"foreach=", "(", ")">>,
      <<"foreach=", "string">>,
      <<"foreach=", "(", "slice", ";", "foreach=", "(", "string", ";", "nope", ")", ")">>,
      <<"foreach=", "(", "string", ";", "min=", "x", ")">>,
      <<"foreach=", "(", "int", ";", "nope", ")">>,
      <<"(">>, <<")">>, <<"(", "a">>, <<"min=", "3", ")">>,
      <<"foreach=", "(", "string">>,
      <<"foreach=", "(", "string", ";", "min=", "2", ")", ")">> }

(* The lists of at most n segments.                                        *)
RECURSIVE SegmentLists(_)
SegmentLists(n) ==
    IF n = 0 THEN {<<>>}
    ELSE SegmentLists(n - 1)
            \cup {Append(l, g) : l \in {x \in SegmentLists(n - 1) : Len(x) = n - 1}, g \in ParseSegments}

InitParse ==
    /\ pureIn = Idle /\ pureOut = Idle
    /\ engine = Idle /\ calls = Idle /\ procs = Idle /\ evalIn = Idle /\ evalOut = Idle
    /\ walkIn = Idle /\ walkOut = Idle /\ heap = Idle

(* rules, err := types.ParseTag(tag)                                       *)
CallParseTag ==
    /\ pureIn = Idle
    /\ \E base \in ParseBases : \E segs \in SegmentLists(MaxSegments) :
          \E tag \in {Join(<<base>> \o segs, ";")} : \E res \in {ParseTag(tag)} :
              /\ pureIn' = [op |-> "ParseTag", base |-> base, segs |-> segs, tag |-> tag]
              /\ pureOut' = [err |-> res.err, rules |-> res.rules, parts |-> splitTagSafely(tag)]
    /\ UNCHANGED <<engine, calls, procs, evalIn, evalOut, walkIn, walkOut, heap>>

NextParse == CallParseTag

SpecParse == InitParse /\ [][NextParse]_vars

Parsed == pureIn # Idle /\ pureIn.op = "ParseTag"

(* Every rule of a list, and every rule nested under it, has a kind.       *)
RECURSIVE AllKindsNonEmpty(_)
AllKindsNonEmpty(rules) ==
    \A i \in 1..Len(rules) :
        /\ rules[i].Kind # ""
        /\ HasArg(rules[i], "rules") => AllKindsNonEmpty(rules[i].Args["rules"].rs)
        /\ rules[i].Elem # NoElem => rules[i].Elem[1].Kind # ""

(* C16: ParseTag returns either (rules, nil) in which every rule, nested   *)
(* rules included, has a non-empty kind, or (nil, err) with a non-empty    *)
(* message, never rules together with an error; the empty tag gives an     *)
(* empty rule list and no error.                                           *)
C16_ParseTotal ==
    Parsed =>
        /\ \/ pureOut.err = "" /\ AllKindsNonEmpty(pureOut.rules)
           \/ pureOut.err # "" /\ pureOut.rules = <<>>
        /\ pureIn.tag = <<>> => pureOut.err = "" /\ pureOut.rules = <<>>

(* C16 witness: a tag with an empty segment between two rules and a nested *)
(* forEach parsed into rules that all have kinds; the empty segment gave   *)
(* no rule.                                                                *)
C16_Witness ==
    /\ Parsed
    /\ pureIn.base = <<"slice">>
    /\ pureIn.segs = << <<>>, <<"foreach=", "(", "slice", ";", "foreach=", "(", "string", ";", "nope", ")", ")">> >>
    /\ pureOut.err = ""
    /\ Len(pureOut.rules) = 2
    /\ pureOut.rules[2].Args["rules"].rs[2].Args["rules"].rs[2].Kind = "nope"

(* The segments of a tag as a split has to give them: a trailing empty     *)
(* segment is dropped.                                                     *)
ExpectedParts(tag, all) ==
    IF tag = <<>> THEN <<>>
    ELSE IF all[Len(all)] = <<>> THEN SubSeq(all, 1, Len(all) - 1)
    ELSE all

slice1ForEach == <<"slice", ";", "min=", "1", ";", "foreach=", "(", "string", ";", "min=", "2", ")">>

(* C17: a semicolon inside a balanced (...) span does not end a segment:   *)
(* a tag joined from segments with balanced parentheses splits into these  *)
(* segments; slice;min=1;foreach=(string;min=2) parses to slice,           *)
(* minSliceLength(1) and a forEach whose args["rules"] is [string,         *)
(* minLength(2)]; and a foreach whose inner tag gives no rule is a parse   *)
(* error.                                                                  *)
C17_ParenAwareSplit ==
    Parsed =>
        /\ (\A i \in 1..Len(pureIn.segs) : parensBalanced(pureIn.segs[i], 0))
              => pureOut.parts = ExpectedParts(pureIn.tag, <<pureIn.base>> \o pureIn.segs)
        /\ pureIn.tag = slice1ForEach
              => /\ pureOut.err = ""
                 /\ [i \in 1..Len(pureOut.rules) |-> pureOut.rules[i].Kind]
                        = <<KSlice, KMinSliceLength, KForEach>>
                 /\ pureOut.rules[2].Args = [n |-> AInt(1)]
                 /\ pureOut.rules[3].Args["rules"]
                        = ARules(<<NewRule(KString, NoArgs), NewRule(KMinLength, [n |-> AInt(2)])>>)
        /\ (/\ pureOut.parts # <<>> /\ pureOut.parts[1] = <<"slice">>
            /\ \E i \in 2..Len(pureOut.parts) :
                  /\ HasPrefix(pureOut.parts[i], "foreach=")
                  /\ HasPrefix(Tail(pureOut.parts[i]), "(") /\ HasSuffix(pureOut.parts[i], ")")
                  /\ ParseTag(SubSeq(pureOut.parts[i], 3, Len(pureOut.parts[i]) - 1)) = TagOk(<<>>))
              => pureOut.err # "" /\ pureOut.rules = <<>>

(* C17 witness: slice;min=1;foreach=(string;min=2) was parsed into three   *)
(* parts and three rules, the inner list under the forEach.                *)
C17_Witness ==
    /\ Parsed
    /\ pureIn.tag = slice1ForEach
    /\ Len(pureOut.parts) = 3
    /\ Len(pureOut.rules) = 3
    /\ Len(pureOut.rules[3].Args["rules"].rs) = 2

(* C18 as stated: ParseTag returns an error for every tag whose            *)
(* parentheses are unbalanced, whatever the base type.                     *)
C18_UnbalancedIsError ==
    Parsed /\ ~parensBalanced(pureIn.tag, 0) => pureOut.err # ""

(* The rule keys that the segment parsers know.                            *)
StringKeys == {"length=", "min=", "max=", "regex=", "oneof="}
IntKeys == {"min=", "max="}
SliceKeys == {"length=", "min=", "max=", "foreach="}

Recognised(part, keys) == part # <<>> /\ part[1] \in keys

(* The rules of a string tag none of whose segments has a known key.       *)
PluginRules(parts) ==
    <<NewRule(KString, NoArgs)>>
        \o [i \in 1..Len(SelectSeq(Tail(parts), LAMBDA q : q # <<>>)) |->
               NewRule(Flatten(SelectSeq(Tail(parts), LAMBDA q : q # <<>>)[i]), NoArgs)]

DocumentedKind(base, key) ==
    CASE base = "string" /\ key = "len=" -> KLength
      [] base = "string" /\ key = "min=" -> KMinLength
      [] base = "string" /\ key = "max=" -> KMaxLength
      [] base = "string" /\ key = "minRunes=" -> KMinRunes
      [] base = "string" /\ key = "maxRunes=" -> KMaxRunes
      [] base = "string" /\ key = "oneof=" -> KOneOf
      [] base = "string" /\ key = "regex=" -> KRegex
      [] base \in {"int", "int64"} /\ key = "min=" -> KMinInt
      [] base \in {"int", "int64"} /\ key = "max=" -> KMaxInt
      [] base = "slice" /\ key = "len=" -> KSliceLength
      [] base = "slice" /\ key = "min=" -> KMinSliceLength
      [] base = "slice" /\ key = "max=" -> KMaxSliceLength
      [] base = "slice" /\ key = "foreach=" -> KForEach
      [] OTHER -> ""

(* C20 as stated: ParseTag maps every rule key of the documented grammar   *)
(* to its built-in kind: a tag of a base and one segment with a documented *)
(* key and a well-formed value parses to the base rule and a rule of that  *)
(* kind.                                                                   *)
C20_DocumentedKeys ==
    (/\ Parsed
     /\ Len(pureIn.segs) = 1 /\ pureIn.segs[1] # <<>> /\ pureIn.base # <<>>
     /\ DocumentedKind(pureIn.base[1], pureIn.segs[1][1]) # ""
     /\ pureIn.segs[1] \notin {<<"min=", "x">>, <<"min=", "3", ")">>, <<"foreach=", "(", ")">>,
                               <<"foreach=", "string">>, <<"foreach=", "(", "string">>,
                               <<"foreach=", "(", "string", ";", "min=", "x", ")">>,
                               <<"foreach=", "(", "int", ";", "nope", ")">>,
                               <<"foreach=", "(", "string", ";", "min=", "2", ")", ")">>})
        => /\ pureOut.err = ""
           /\ Len(pureOut.rules) = 2
           /\ pureOut.rules[2].Kind = DocumentedKind(pureIn.base[1], pureIn.segs[1][1])

---------------------------------------------------------------------------
(* Structured failures of the built-in rules.                              *)

(* The codes of the failures that compare against a threshold n.           *)
ThresholdCodes ==
    {CodeStringLength, CodeStringMin, CodeStringMax, CodeStringMinRunes, CodeStringMaxRunes,
     CodeIntMin, CodeIntMax, CodeSliceLength, CodeSliceMin, CodeSliceMax}

(* The failures returned by an invocation whose failing rule is a built-in *)
(* rule other than forEach.                                                *)
BuiltinFailed ==
    /\ Invoked
    /\ IsErrors(evalOut.builder.err)
    /\ LastEvaluated.Kind \in BuiltinKinds \ {KForEach}

(* C21 as stated: every FieldError of a built-in rule failure carries a    *)
(* non-empty code, the rule's parameter in Param (the threshold n for min, *)
(* max and length rules), and a non-empty message: the Translator's result *)
(* when one is configured and returns a non-empty string for the code,     *)
(* otherwise the default message.                                          *)
C21_StructuredFailure ==
    BuiltinFailed =>
        \A i \in 1..Len(evalOut.builder.err.es) :
            LET fe == evalOut.builder.err.es[i]
            IN  /\ fe.Code # ""
                /\ fe.Msg # ""
                /\ (evalIn.tr # "nil" /\ TranslatorT(evalIn.tr, fe.Code) # "")
                        => fe.Msg = TranslatorT(evalIn.tr, fe.Code)
                /\ fe.Code \in ThresholdCodes => fe.Param = <<LastEvaluated.Args["n"].n>>

---------------------------------------------------------------------------
(* The plugin registries (types.globalRegistry, Compiler.custom).          *)
(* heap.maps are the map objects: map 1 is globalRegistry, the others are  *)
(* the custom maps of the Compilers made so far; heap.compilers[i] is the  *)
(* index of the map that Compiler i refers to.  calls is the sequence of   *)
(* the operations done.                                                    *)

MaxCompilers == 2
MaxRegOps == 4

(* Rule compilers: the one a plugin registered at init, two that compile   *)
(* their rule, and one that returns an error.                              *)
rcInit == "rcInit"
rcGlobal == "rcGlobal"
rcOwn == "rcOwn"
rcFailing == "rcFailing"

RegKinds == {"plug", KString}

(* A new Compiler whose custom map is globalRegistry itself.               *)
NewCompilerSharing(h) ==
    [maps |-> h.maps, compilers |-> Append(h.compilers, 1)]

(* NewCompiler: a map of its own, filled from globalRegistry.              *)
NewCompilerCopying(h) ==
    [maps |-> Append(h.maps, h.maps[1]), compilers |-> Append(h.compilers, Len(h.maps) + 1)]

(* compileRule: a rule compiler in custom that compiles the rule comes     *)
(* first, then the built-in kinds, then the closure for an unknown kind.   *)
compileRuleBy(custom, kind) ==
    IF kind \in DOMAIN custom /\ custom[kind] # rcFailing THEN custom[kind]
    ELSE IF kind \in BuiltinKinds THEN "builtin"
    ELSE "unknown"

RegOp(op, c, kind, rc, res) == [op |-> op, c |-> c, kind |-> kind, rc |-> rc, res |-> res]

InitRegistry ==
    /\ heap = [maps |-> <<[k \in globalRegistry |-> rcInit]>>, compilers |-> <<>>]
    /\ calls = <<>>
    /\ engine = Idle /\ procs = Idle /\ evalIn = Idle /\ evalOut = Idle
    /\ walkIn = Idle /\ walkOut = Idle
    /\ pureIn = Idle /\ pureOut = Idle

(* types.RegisterRule(kind, rc)                                            *)
RegisterRule ==
    /\ Len(calls) < MaxRegOps
    /\ \E kind \in RegKinds :
          /\ heap' = [heap EXCEPT !.maps[1] = MapPut(@, kind, rcGlobal)]
          /\ calls' = Append(calls, RegOp("RegisterRule", 0, kind, rcGlobal, ""))
    /\ UNCHANGED <<engine, procs, evalIn, evalOut, walkIn, walkOut, pureIn, pureOut>>

(* types.NewCompiler(t)                                                    *)
NewCompiler ==
    /\ Len(calls) < MaxRegOps
    /\ Len(heap.compilers) < MaxCompilers
    /\ heap' = NewCompilerCopying(heap)
    /\ calls' = Append(calls, RegOp("NewCompiler", Len(heap.compilers) + 1, "", "", ""))
    /\ UNCHANGED <<engine, procs, evalIn, evalOut, walkIn, walkOut, pureIn, pureOut>>

(* c.RegisterRule(kind, rc): c.custom is never nil after NewCompiler.      *)
CompilerRegisterRule ==
    /\ Len(calls) < MaxRegOps
    /\ \E c \in 1..Len(heap.compilers) : \E rc \in {rcOwn, rcFailing} :
          /\ heap' = [heap EXCEPT !.maps[heap.compilers[c]] = MapPut(@, "plug", rc)]
          /\ calls' = Append(calls, RegOp("Compiler.RegisterRule", c, "plug", rc, ""))
    /\ UNCHANGED <<engine, procs, evalIn, evalOut, walkIn, walkOut, pureIn, pureOut>>

(* c.Compile([]Rule{{Kind: kind}})                                         *)
CompileKind ==
    /\ Len(calls) < MaxRegOps
    /\ \E c \in 1..Len(heap.compilers) : \E kind \in RegKinds :
          calls' = Append(calls, RegOp("compileRule", c, kind, "",
                                       compileRuleBy(heap.maps[heap.compilers[c]], kind)))
    /\ UNCHANGED <<engine, heap, procs, evalIn, evalOut, walkIn, walkOut, pureIn, pureOut>>

NextRegistry == RegisterRule \/ NewCompiler \/ CompilerRegisterRule \/ CompileKind

SpecRegistry == InitRegistry /\ [][NextRegistry]_vars

(* The position of the call that made Compiler c.                          *)
Born(c) == CHOOSE q \in 1..Len(calls) : calls[q].op = "NewCompiler" /\ calls[q].c = c

(* The global registrations of kind before position p, and Compiler c's    *)
(* own registrations of kind before position p.                            *)
GlobalRegs(kind, p) ==
    {q \in 1..(p - 1) : calls[q].op = "RegisterRule" /\ calls[q].kind = kind}

OwnRegs(c, kind, p) ==
    {q \in 1..(p - 1) : calls[q].op = "Compiler.RegisterRule" /\ calls[q].c = c /\ calls[q].kind = kind}

(* A compile by a Compiler that has no rule compiler of its own for the    *)
(* kind gives what the registry held when the Compiler was made: the       *)
(* plugin of a kind registered before, and for a kind registered only      *)
(* afterwards the built-in or unknown kind.                                *)
SeesSnapshot ==
    \A p \in 1..Len(calls) :
        (calls[p].op = "compileRule" /\ OwnRegs(calls[p].c, calls[p].kind, p) = {}) =>
            IF GlobalRegs(calls[p].kind, Born(calls[p].c)) # {}
            THEN calls[p].res = rcGlobal
            ELSE calls[p].res = IF calls[p].kind \in BuiltinKinds THEN "builtin" ELSE "unknown"

(* A step of Compiler.RegisterRule leaves globalRegistry and the custom    *)
(* maps of the other Compilers as they were.                               *)
OwnStaysOwn ==
    (Len(calls') = Len(calls) + 1 /\ calls'[Len(calls')].op = "Compiler.RegisterRule") =>
        /\ heap'.maps[1] = heap.maps[1]
        /\ \A d \in 1..Len(heap.compilers) :
              d # calls'[Len(calls')].c => heap'.maps[heap'.compilers[d]] = heap.maps[heap.compilers[d]]

(* C22: NewCompiler copies the global registry at construction: a kind     *)
(* registered globally after a Compiler was made is not visible to that    *)
(* Compiler, which keeps compiling the kind as unknown, while a Compiler    *)
(* made after the registration resolves the kind to the plugin; a          *)
(* Compiler's own RegisterRule changes neither the global registry nor     *)
(* another Compiler.                                                       *)
C22_RegistrySnapshot == []SeesSnapshot /\ [][OwnStaysOwn]_vars

(* C22 witness: Compiler 1 was made, then "plug" was registered globally,  *)
(* then Compiler 2 was made; Compiler 1 has compiled "plug" as unknown     *)
(* while the global registry, and Compiler 2's copy, hold the plugin.      *)
C22_Witness ==
    /\ Len(calls) = 4 /\ Len(heap.compilers) = 2
    /\ calls[1].op = "NewCompiler"
    /\ calls[2].op = "RegisterRule" /\ calls[2].kind = "plug"
    /\ calls[3].op = "NewCompiler"
    /\ calls[4].op = "compileRule" /\ calls[4].c = 1 /\ calls[4].kind = "plug"
    /\ calls[4].res = "unknown"
    /\ compileRuleBy(heap.maps[heap.compilers[2]], "plug") = rcGlobal

---------------------------------------------------------------------------
(* Custom single-token rules.                                              *)

(* The base type tokens of the tag grammar (the switch of ParseTag).       *)
BaseTypes == {"string", "int", "int64", "slice", "bool"}

(* FromRules calls with one token that names a custom rule of the Engine   *)
(* return that function and no error, and leave the cache alone.           *)
CustomAnswered ==
    \A i \in 1..Len(calls) :
        (/\ calls[i].op = "FromRules" /\ Len(calls[i].tokens) = 1
         /\ Flatten(calls[i].tokens[1]) \in DOMAIN engine.customRules) =>
            /\ calls[i].fn = <<engine.customRules[Flatten(calls[i].tokens[1])]>>
            /\ calls[i].err = ""
            /\ calls[i].after = calls[i].before

(* C23 as stated: a single token that names a custom rule gets the custom  *)
(* function back, and every first token that is neither a custom rule nor  *)
(* a base type yields an error.                                            *)
C23_AsStated ==
    /\ CustomAnswered
    /\ \A i \in 1..Len(calls) :
          (/\ calls[i].op = "FromRules" /\ Len(calls[i].tokens) > 0
           /\ Flatten(calls[i].tokens[1]) \notin DOMAIN engine.customRules
           /\ Flatten(calls[i].tokens[1]) \notin BaseTypes) =>
              calls[i].err # "" /\ calls[i].fn = <<>>

(* The first semicolon-delimited segment of the tag the tokens join to.    *)
FirstSegment(tokens) == Flatten(splitTagSafely(Join(tokens, ";"))[1])

(* C23 (amended): FromRules called with a single token equal to a name in  *)
(* the Engine's custom-rule table returns that custom function itself with *)
(* a nil error, before any tag parsing, also when the name is no base type *)
(* or is itself a tag; a call that is not answered from the table and      *)
(* whose tokens join to a non-empty tag of which the first                 *)
(* semicolon-delimited segment is not a base type yields an error and no   *)
(* validator.  (One token may hold a whole tag, and the empty tag compiles *)
(* to a validator that accepts everything.)                                *)
C23_CustomFirst ==
    /\ CustomAnswered
    /\ \A i \in 1..Len(calls) :
          (/\ calls[i].op = "FromRules" /\ Len(calls[i].tokens) > 0
           /\ ~(Len(calls[i].tokens) = 1 /\ Flatten(calls[i].tokens[1]) \in DOMAIN engine.customRules)
           /\ Join(calls[i].tokens, ";") # <<>>
           /\ FirstSegment(calls[i].tokens) \notin BaseTypes) =>
              calls[i].err # "" /\ calls[i].fn = <<>>

(* C23 witness: on an Engine whose custom rule is named by a whole tag,    *)
(* that tag as one token got the custom function back and nothing was      *)
(* compiled, while the token "myRule", not a custom rule of this Engine,   *)
(* was an error.                                                           *)
C23_Witness ==
    /\ Len(calls) = 2
    /\ calls[1].op = "FromRules" /\ calls[1].tokens = << <<"string", ";", "min=", "3">> >>
    /\ calls[1].fn = <<customFn>> /\ calls[1].err = ""
    /\ calls[2].op = "FromRules" /\ calls[2].tokens = << <<"myRule">> >>
    /\ calls[2].err # "" /\ calls[2].fn = <<>>
    /\ engine.compiled = <<>>

---------------------------------------------------------------------------
(* The path separator: of an Engine, of the options of a call, and in the  *)
(* paths that a walk reports.  engine is the current Engine, or NoEngine;  *)
(* pureIn is the last operation and pureOut what it returned.              *)

Seps == {"", ":", "/", "|"}

(* R{N N}, N{X string `validate:"string;min=2"`} with X = "".              *)
nestedRN == VStruct(<<Field("N", TRUE, <<>>, VStruct(<<Field("X", TRUE, tagMin2, VStr(<<>>))>>))>>)

SepOp(op, sep, was, opts) == [op |-> op, sep |-> sep, was |-> was, opts |-> opts]

InitSep ==
    /\ engine \in {NoEngine, NewEngine}
    /\ pureIn = Idle /\ pureOut = Idle
    /\ calls = Idle /\ procs = Idle /\ evalIn = Idle /\ evalOut = Idle
    /\ walkIn = Idle /\ walkOut = Idle /\ heap = Idle

(* v = v.PathSeparator(sep)                                                *)
DoSetPathSeparator ==
    /\ engine # NoEngine
    /\ \E sep \in Seps :
          /\ engine' = PathSeparator(engine, sep)
          /\ pureIn' = SepOp("PathSeparator", sep, engine.pathSep, ValidateOpts(FALSE, ""))
          /\ pureOut' = Idle
    /\ UNCHANGED <<calls, procs, evalIn, evalOut, walkIn, walkOut, heap>>

(* o := ApplyOpts(v, opts)                                                 *)
DoApplyOpts ==
    /\ \E sep \in Seps : \E stop \in BOOLEAN :
          /\ pureIn' = SepOp("ApplyOpts", "", "", ValidateOpts(stop, sep))
          /\ pureOut' = ApplyOpts(engine, ValidateOpts(stop, sep))
    /\ UNCHANGED <<engine, calls, procs, evalIn, evalOut, walkIn, walkOut, heap>>

(* err := NewStructValidator(v).ValidateStructWithOpts(R{}, opts)          *)
DoValidateNested ==
    /\ engine # NoEngine
    /\ \E sep \in Seps : \E stop \in BOOLEAN :
          \E res \in {ValidateStructWithOpts(engine, nestedRN, ValidateOpts(stop, sep))} :
              /\ pureIn' = SepOp("ValidateStruct", "", "", ValidateOpts(stop, sep))
              /\ pureOut' = res.err
              /\ engine' = res.e
    /\ UNCHANGED <<calls, procs, evalIn, evalOut, walkIn, walkOut, heap>>

NextSep == DoSetPathSeparator \/ DoApplyOpts \/ DoValidateNested

SpecSep == InitSep /\ [][NextSep]_vars

(* The separator in force for a call with options o on the current Engine. *)
SepInForce(o) ==
    IF o.PathSep # "" THEN o.PathSep
    ELSE IF engine # NoEngine THEN engine.pathSep ELSE "."

(* C24: the path separator of a new Engine is "."; PathSeparator(sep) with *)
(* a non-empty sep gives an Engine that uses sep, PathSeparator("") one    *)
(* that keeps the current separator; in ValidateStructWithOpts a non-empty *)
(* opts.PathSep overrides the Engine's separator for that call and an      *)
(* empty one falls back to the Engine's separator, or to "." when there is *)
(* no Engine.                                                              *)
C24_PathSeparator ==
    /\ NewEngine.pathSep = "."
    /\ (pureIn = Idle /\ engine # NoEngine) => engine.pathSep = "."
    /\ (pureIn # Idle /\ pureIn.op = "PathSeparator") =>
          engine.pathSep = IF pureIn.sep # "" THEN pureIn.sep ELSE pureIn.was
    /\ (pureIn # Idle /\ pureIn.op = "ApplyOpts") =>
          pureOut = ValidateOpts(pureIn.opts.StopOnFirst, SepInForce(pureIn.opts))
    /\ (pureIn # Idle /\ pureIn.op = "ValidateStruct") =>
          /\ IsErrors(pureOut) /\ Len(pureOut.es) = 1
          /\ IsPrefix(<<"N", SepInForce(pureIn.opts), "X">>, pureOut.es[1].Path)

(* C24 witness: on an Engine whose separator was set to ":", a walk with   *)
(* opts.PathSep = "/" reported a path that begins N/X.                     *)
C24_Witness ==
    /\ pureIn # Idle /\ pureIn.op = "ValidateStruct"
    /\ engine.pathSep = ":" /\ pureIn.opts.PathSep = "/"
    /\ SubSeq(pureOut.es[1].Path, 1, 3) = <<"N", "/", "X">>

---------------------------------------------------------------------------
(* Integer rules on the integer types.                                     *)

(* An invocation of a chain of an integer base rule and min and max rules  *)
(* with int64 thresholds, on a value of an integer type.                   *)
IntChainInvoked ==
    /\ evalIn # Idle
    /\ Len(evalIn.rules) >= 1
    /\ evalIn.rules[1].Kind \in {KInt, KInt64}
    /\ \A i \in 2..Len(evalIn.rules) :
          /\ evalIn.rules[i].Kind \in {KMinInt, KMaxInt}
          /\ HasArg(evalIn.rules[i], "n") /\ evalIn.rules[i].Args["n"].t = "int64"
    /\ evalIn.v.t \in IntTypes

(* Whether the number x is on the wrong side of the threshold of rule r.   *)
Violates(r, x) == IF r.Kind = KMinInt THEN x < r.Args["n"].n ELSE x > r.Args["n"].n

FirstViolated(rules, x) ==
    CHOOSE i \in 2..Len(rules) :
        Violates(rules[i], x) /\ \A j \in 2..(i - 1) : ~Violates(rules[j], x)

(* C25: integer min and max rules compare a value of any signed or         *)
(* unsigned integer type by its numeric value after conversion to a 64-bit *)
(* signed integer, and reject with int.type every uint or uint64 value     *)
(* above the largest int64 instead of letting it wrap; a chain with base   *)
(* type int64 accepts only values whose type is exactly int64.             *)
C25_IntNormalised ==
    IntChainInvoked =>
        LET v == evalIn.v
            rules == evalIn.rules
            codes == CodesOf(evalOut.builder.err)
        IN  IF rules[1].Kind = KInt64 /\ v.t # "int64"
            THEN codes = <<CodeInt64Type>>
            ELSE IF Len(rules) >= 2 /\ v.t \in {"uint", "uint64"} /\ v.n > MaxInt64
            THEN codes = <<CodeIntType>>
            ELSE IF \E i \in 2..Len(rules) : Violates(rules[i], v.n)
            THEN codes = <<IF rules[FirstViolated(rules, v.n)].Kind = KMinInt
                           THEN CodeIntMin ELSE CodeIntMax>>
            ELSE evalOut.builder.err = Nil

(* C25 witness: a uint64 above the largest int64 under int;min=1;max=5 is  *)
(* rejected with int.type and not compared.                                *)
C25_Witness ==
    /\ IntChainInvoked
    /\ evalIn.rules[1].Kind = KInt /\ Len(evalIn.rules) = 3
    /\ evalIn.v.t = "uint64" /\ evalIn.v.n > MaxInt64
    /\ CodesOf(evalOut.builder.err) = <<CodeIntType>>

---------------------------------------------------------------------------
(* String rules and the type of the value.                                 *)

StringKinds == {KString, KLength, KMinLength, KMaxLength, KMinRunes, KMaxRunes, KRegex, KOneOf}

(* The types of the values that are strings or have a textual              *)
(* representation of their own (fmt.Stringer).                             *)
TextTypes == {"string", "stringer"}

(* C26 as stated: a string rule accepts, as far as the type goes, a value  *)
(* that is a string or is string-convertible, and rejects every numeric or *)
(* other scalar value with code string.type.                               *)
C26_StringTypes ==
    (evalIn # Idle /\ evalOut.builder.evaluated # <<>> /\ LastEvaluated.Kind \in StringKinds) =>
        IF evalIn.v.t \in TextTypes
        THEN \A i \in 1..Len(CodesOf(evalOut.builder.err)) :
                CodesOf(evalOut.builder.err)[i] # CodeStringType
        ELSE CodesOf(evalOut.builder.err) = <<CodeStringType>>

---------------------------------------------------------------------------
(* The serialization as a cache key.                                       *)

(* C27 as stated: two rule lists without function arguments that have the  *)
(* same SerializeRules output compile to validators with the same outcome  *)
(* on every input, so that a validator taken from the cache under that key *)
(* behaves like a fresh compile of the rule list that was passed in.       *)
C27_KeySound ==
    (/\ Serialized
     /\ ~CarriesFunc(pureIn.rules) /\ ~CarriesFunc(pureIn.other)
     /\ pureOut.first = pureOut.other) =>
        pureOut.firstOn = pureOut.otherOn

---------------------------------------------------------------------------
(* Two walks over equal values.                                            *)

(* C28 as stated: two runs of ValidateStruct on equal struct values with   *)
(* the same Engine and the same options return the same Errors sequence,   *)
(* the same failures in the same order, also when untagged map-of-struct   *)
(* fields are walked, and with StopOnFirst=true the same single failure.   *)
C28_WalkDeterministic ==
    (walkIn # Idle /\ walkOut.again # Idle) => walkOut.again[1] = walkOut.err

---------------------------------------------------------------------------
(* Failing FromRules calls.                                                *)

Failed(i) == calls[i].op = "FromRules" /\ calls[i].err # ""

(* C29: a FromRules call that fails (an empty token list, or a tag that    *)
(* does not parse) returns no validator and leaves the cache as it was: no *)
(* entry is stored for the failing tag, a later call with the same tokens  *)
(* fails again, and a call with another tag still gets a validator of its  *)
(* own tag.                                                                *)
C29_FailureLeavesCache ==
    /\ \A i \in 1..Len(calls) :
          Failed(i) =>
              /\ calls[i].fn = <<>>
              /\ calls[i].after = calls[i].before
              /\ calls[i].tokens # <<>> => TagKey(calls[i].tokens) \notin DOMAIN engine.compiled
              /\ \A j \in (i + 1)..Len(calls) :
                    (calls[j].op = "FromRules" /\ calls[j].tokens = calls[i].tokens) =>
                        calls[j].err = calls[i].err /\ calls[j].fn = <<>>
    /\ \A j \in 1..Len(calls) :
          (calls[j].op = "FromRules" /\ calls[j].err = "" /\ ~calls[j].custom) =>
              /\ calls[j].fn # <<>>
              /\ calls[j].fn[1].rules = ParseTag(Join(calls[j].tokens, ";")).rules

(* C29 witness: a tag of an unknown type failed, another tag was compiled  *)
(* and stored, and the first tag failed again with the same error; the     *)
(* cache holds the one entry.                                              *)
C29_Witness ==
    /\ Len(calls) = 3
    /\ Failed(1) /\ calls[1].tokens # <<>>
    /\ calls[2].op = "FromRules" /\ calls[2].err = "" /\ calls[2].fresh
    /\ Failed(3) /\ calls[3].tokens = calls[1].tokens /\ calls[3].err = calls[1].err
    /\ DOMAIN engine.compiled = {TagKey(calls[2].tokens)}

---------------------------------------------------------------------------
(* forEach rules on values that are not slices.                            *)

(* The form in which a forEach rule names its element validator.           *)
ForEachForm(rule) ==
    IF HasArg(rule, "rules") /\ rule.Args["rules"].t = "rules" THEN "rules"
    ELSE IF rule.Elem # NoElem THEN "elem"
    ELSE IF HasArg(rule, "validator") /\ rule.Args["validator"].t = "func" THEN "validator"
    ELSE "none"

(* C30 as stated: every compiled forEach rule rejects a value that is not  *)
(* a slice with code slice.type, in whichever form the rule was given: a   *)
(* nested rule list in args["rules"], a single Elem rule, a function in    *)
(* args["validator"], or none of the three.                                *)
C30_ForEachTypeCheck ==
    (/\ evalIn # Idle /\ evalOut.builder.evaluated # <<>>
     /\ LastEvaluated.Kind = KForEach
     /\ ForEachForm(LastEvaluated) \in {"rules", "elem", "validator", "none"}
     /\ evalIn.v.t # "slice") =>
        CodesOf(evalOut.builder.err) = <<CodeSliceType>>

====
